---- MODULE Spec2Model ----
(***************************************************************************)
(* Appointment scheduling core of MedAssist_AI: the file-backed store      *)
(* (database.py), the availability engine and the appointment lifecycle    *)
(* (scheduling_service.py).                                                 *)
(*                                                                         *)
(* A datetime is an integer number of minutes since 00:00 of day 0, and    *)
(* day 0 is a Monday.  Every datetime the service stores has been taken    *)
(* from a slot list, so whole minutes lose nothing.  The wall-clock field  *)
(* updated_at is written by every mutation and read by none of the         *)
(* modelled operations; it is left out.                                    *)
(***************************************************************************)
EXTENDS Integers, Sequences, FiniteSets, Bags, TLC

VARIABLES
    patients,       \* patients.json: list of patient records
    doctors,        \* doctors.json: list of doctor records
    appointments,   \* appointments.json: list of appointment records
    predictions,    \* no_show_predictions.json: list of prediction records
    settings,       \* clinic_settings.json: list holding at most one record
    call,           \* the last operation called, with its arguments
    ret,            \* what that call returned or raised
    steps,          \* lifecycle operations called so far
    outbox,         \* bag of the notifications a channel has sent: <<kind, appointment id>>
    threads         \* the calls in progress: position and local variables of each

vars == <<patients, doctors, appointments, predictions, settings, call, ret, steps, outbox, threads>>

db == <<patients, doctors, appointments, predictions, settings>>

----------------------------------------------------------------------------
(* Bounds of the model *)

\* stored appointments (book_appointment is not taken beyond it)
MaxAppointments == 2

\* a patient's no_show_count (mark_no_show is not taken beyond it)
MaxNoShows == 3

\* lifecycle operations in one run (no operation is taken beyond it)
MaxSteps == 6

----------------------------------------------------------------------------
(* Values *)

SCHEDULED == "scheduled"
CONFIRMED == "confirmed"
COMPLETED == "completed"
CANCELLED == "cancelled"
NO_SHOW == "no_show"
RESCHEDULED == "rescheduled"

AppointmentStatus == {SCHEDULED, CONFIRMED, COMPLETED, CANCELLED, NO_SHOW, RESCHEDULED}

ACTIVE == "active"
INACTIVE == "inactive"
HIGH_RISK == "high_risk"

PENDING == "pending"
VERIFIED == "verified"
EXPIRED == "expired"
INVALID == "invalid"

\* Optional[...]: None is the empty sequence, a value v is <<v>>
None == <<>>

Some(v) == <<v>>

Abs(x) == IF x < 0 THEN 0 - x ELSE x

\* `x in list`
InList(x, s) == \E i \in DOMAIN s : s[i] = x

MinutesPerDay == 24 * 60

\* datetime.date(): the day number
DateOf(dt) == dt \div MinutesPerDay

\* datetime.combine(date, time)
Combine(date_obj, time_of_day) == date_obj * MinutesPerDay + time_of_day

WeekdayNames == <<"monday", "tuesday", "wednesday", "thursday", "friday", "saturday", "sunday">>

\* date.strftime('%A').lower()
DayName(dt) == WeekdayNames[(DateOf(dt) % 7) + 1]

\* datetime.strptime(s, '%H:%M').time(): the text "HH:MM" is the pair <<HH, MM>>
ParseTime(hhmm) == hhmm[1] * 60 + hhmm[2]

----------------------------------------------------------------------------
(* Records *)

\* Patient(...) as register_patient builds it: the dataclass defaults
NewPatient(id) ==
    [id |-> id, status |-> ACTIVE, no_show_count |-> 0, last_appointment |-> None]

\* Patient(...) as register_patient builds it, with the fields the insurance
\* check, the notifications and the risk score read.  A text is a sequence of
\* one-character strings; provider names are given in lower case.
Patient(id, date_of_birth, emergency_contact, insurance_provider, insurance_number, preferred_communication) ==
    [id |-> id, status |-> ACTIVE, no_show_count |-> 0, last_appointment |-> None,
     date_of_birth |-> date_of_birth, emergency_contact |-> emergency_contact,
     insurance_provider |-> insurance_provider, insurance_number |-> insurance_number,
     insurance_status |-> PENDING, preferred_communication |-> preferred_communication]

\* faulty variant: the duration is left at the dataclass default of 30 minutes
NewAppointmentDefaultDuration(id, patient_id, doctor_id, appointment_datetime, duration) ==
    [id |-> id, patient_id |-> patient_id, doctor_id |-> doctor_id,
     appointment_datetime |-> appointment_datetime, duration |-> 30,
     status |-> SCHEDULED, insurance_verified |-> FALSE,
     reminder_sent |-> FALSE, confirmation_sent |-> FALSE]

\* Appointment(...) as book_appointment builds it: the dataclass defaults
NewAppointment(id, patient_id, doctor_id, appointment_datetime, duration) ==
    [id |-> id, patient_id |-> patient_id, doctor_id |-> doctor_id,
     appointment_datetime |-> appointment_datetime, duration |-> duration,
     status |-> SCHEDULED, insurance_verified |-> FALSE,
     reminder_sent |-> FALSE, confirmation_sent |-> FALSE]

\* ClinicSettings: no_show_threshold as configured
ClinicSettings(no_show_threshold) == [no_show_threshold |-> no_show_threshold]

DefaultNoShowThreshold == 3

----------------------------------------------------------------------------
(* MedicalDatabase: every operation loads the whole list and scans it *)

IndexOf(list, id) == CHOOSE i \in DOMAIN list : list[i].id = id /\ \A j \in 1..(i - 1) : list[j].id # id

HasId(list, id) == \E i \in DOMAIN list : list[i].id = id

\* get_patient / get_doctor / get_appointment: None when no record has the id
get_patient(patient_id) ==
    IF HasId(patients, patient_id) THEN Some(patients[IndexOf(patients, patient_id)]) ELSE None

get_doctor(doctor_id) ==
    IF HasId(doctors, doctor_id) THEN Some(doctors[IndexOf(doctors, doctor_id)]) ELSE None

get_appointment(appointment_id) ==
    IF HasId(appointments, appointment_id)
    THEN Some(appointments[IndexOf(appointments, appointment_id)]) ELSE None

\* the appointment a stored id names
Appt(appointment_id) == get_appointment(appointment_id)[1]

\* the patient a stored id names
Pat(patient_id) == get_patient(patient_id)[1]

\* add_*: insert if no record has the id
add_record(list, rec) == IF HasId(list, rec.id) THEN list ELSE Append(list, rec)

\* update_*: replace the first record with the id, or change nothing
update_record(list, rec) ==
    IF HasId(list, rec.id) THEN [list EXCEPT ![IndexOf(list, rec.id)] = rec] ELSE list

\* get_appointments(doctor_id=..., start_date=..., end_date=...)
get_appointments(doctor_id, start_date, end_date) ==
    SelectSeq(appointments,
              LAMBDA a : /\ a.doctor_id = doctor_id
                         /\ ~(a.appointment_datetime < start_date)
                         /\ ~(a.appointment_datetime > end_date))

\* get_clinic_settings().no_show_threshold, the dataclass default when none is stored
no_show_threshold ==
    IF settings # <<>> THEN settings[1].no_show_threshold ELSE DefaultNoShowThreshold

----------------------------------------------------------------------------
(* SchedulingService.get_available_slots *)

\* faulty variant: a cancelled appointment keeps its slot
OccupyingStatusesWithCancelled == {SCHEDULED, CONFIRMED, CANCELLED}

\* faulty variant: a confirmed appointment does not keep its slot
OccupyingStatusesScheduledOnly == {SCHEDULED}

\* the statuses whose appointments occupy a slot
OccupyingStatuses == {SCHEDULED, CONFIRMED}

\* occupied_slots: the start times of the occupying appointments among `existing`
OccupiedSlots(existing) ==
    LET occ == SelectSeq(existing, LAMBDA a : a.status \in OccupyingStatuses)
    IN  [i \in DOMAIN occ |-> occ[i].appointment_datetime]

\* faulty variant: only an appointment at a later start conflicts
SlotConflictLaterOnly(current_time, occupied_slots, appointment_duration) ==
    \E i \in DOMAIN occupied_slots :
        /\ current_time < occupied_slots[i]
        /\ (occupied_slots[i] - current_time) * 60 < appointment_duration * 60

\* faulty variant: only an appointment at the very same start conflicts
SlotConflictSameStart(current_time, occupied_slots, appointment_duration) ==
    \E i \in DOMAIN occupied_slots : current_time = occupied_slots[i]

\* any(abs((current_time - occupied_slot).total_seconds()) < appointment_duration * 60)
SlotConflict(current_time, occupied_slots, appointment_duration) ==
    \E i \in DOMAIN occupied_slots :
        Abs(current_time - occupied_slots[i]) * 60 < appointment_duration * 60

\* faulty variant: the loop condition forgets the appointment's length
SlotStartsInWindow(current_time, end_of_day, appointment_duration) ==
    current_time <= end_of_day

\* the loop condition of the slot walk
SlotFits(current_time, end_of_day, appointment_duration) ==
    current_time + appointment_duration <= end_of_day

\* the while loop, for a positive stride
RECURSIVE SlotWalk(_, _, _, _, _)
SlotWalk(current_time, end_of_day, appointment_duration, occupied_slots, available_slots) ==
    IF SlotFits(current_time, end_of_day, appointment_duration)
    THEN SlotWalk(current_time + appointment_duration, end_of_day, appointment_duration,
                  occupied_slots,
                  IF SlotConflict(current_time, occupied_slots, appointment_duration)
                  THEN available_slots
                  ELSE Append(available_slots, current_time))
    ELSE available_slots

get_available_slots(doctor_id, date, appointment_duration) ==
    IF get_doctor(doctor_id) = None THEN <<>>
    ELSE LET doctor == get_doctor(doctor_id)[1]
             day_name == DayName(date)
         IN  IF day_name \notin DOMAIN doctor.working_hours THEN <<>>
             ELSE LET working_hours == doctor.working_hours[day_name]
                      start_time == ParseTime(working_hours.start)
                      end_time == ParseTime(working_hours.end)
                      start_of_day == Combine(DateOf(date), start_time)
                      end_of_day == Combine(DateOf(date), end_time)
                      existing == get_appointments(doctor_id, start_of_day, end_of_day)
                  IN  SlotWalk(start_of_day, end_of_day, appointment_duration,
                               OccupiedSlots(existing), <<>>)

----------------------------------------------------------------------------
(* Inputs *)

\* a doctor record as doctors.json holds it: Mondays 09:00-10:30, 45-minute appointments
Doctor1 ==
    [id |-> "doc_001",
     working_hours |-> [monday |-> [start |-> <<9, 0>>, end |-> <<10, 30>>]],
     appointment_duration |-> 45]

DoctorIds == {"doc_001", "doc_404"}

\* the registered patients, in the order of registration; patient 1 never books
RegisteredPatients == <<NewPatient(1), NewPatient(2)>>

\* the patient ids callers pass: a registered patient and an id nobody has
PatientIds == {2, 3}

AppointmentIds == 1..(MaxAppointments + 1)

\* Monday 09:00, 09:30 (off the grid), 09:45; Wednesday 09:00 (no working hours)
DateTimes ==
    {Combine(0, 9 * 60), Combine(0, 9 * 60 + 30), Combine(0, 9 * 60 + 45), Combine(2, 9 * 60)}

Raise(msg) == [raised |-> TRUE, value |-> msg]

Return(v) == [raised |-> FALSE, value |-> v]

----------------------------------------------------------------------------
(* SchedulingService *)

\* faulty variant: the availability check is skipped
SlotAvailableAlways(doctor_id, appointment_datetime, duration) == TRUE

\* `appointment_datetime in self.get_available_slots(doctor_id, appointment_datetime, duration)`
SlotAvailable(doctor_id, appointment_datetime, duration) ==
    InList(appointment_datetime,
           get_available_slots(doctor_id, appointment_datetime, duration))

book_appointment(patient_id, doctor_id, appointment_datetime) ==
    /\ steps < MaxSteps
    /\ steps' = steps + 1
    /\ UNCHANGED <<outbox, threads>>
    /\ call' = [name |-> "book_appointment"]
    /\ IF get_patient(patient_id) = None
       THEN ret' = Raise("Patient not found") /\ UNCHANGED db
       ELSE IF get_doctor(doctor_id) = None
       THEN ret' = Raise("Doctor not found") /\ UNCHANGED db
       ELSE LET doctor == get_doctor(doctor_id)[1]
            IN  IF ~SlotAvailable(doctor_id, appointment_datetime,
                                  doctor.appointment_duration)
                THEN ret' = Raise("Appointment slot not available") /\ UNCHANGED db
                ELSE /\ Len(appointments) < MaxAppointments
                     /\ LET appointment_id == Len(appointments) + 1
                        IN  /\ appointments' =
                                  add_record(appointments,
                                             NewAppointment(appointment_id, patient_id,
                                                            doctor_id, appointment_datetime,
                                                            doctor.appointment_duration))
                            /\ ret' = Return(appointment_id)
                     /\ UNCHANGED <<patients, doctors, predictions, settings>>

\* faulty variant: the moved appointment is put back to scheduled
RescheduledAsScheduled(appointment, new_datetime) ==
    [appointment EXCEPT !.appointment_datetime = new_datetime, !.status = SCHEDULED]

\* faulty variant: the status is set but the start time is not moved
RescheduledInPlace(appointment, new_datetime) ==
    [appointment EXCEPT !.status = RESCHEDULED]

\* faulty variant: the moved appointment is to be reminded and confirmed anew
RescheduledClearingFlags(appointment, new_datetime) ==
    [appointment EXCEPT !.appointment_datetime = new_datetime, !.status = RESCHEDULED,
                        !.reminder_sent = FALSE, !.confirmation_sent = FALSE]

\* the appointment record reschedule_appointment writes back
Rescheduled(appointment, new_datetime) ==
    [appointment EXCEPT !.appointment_datetime = new_datetime, !.status = RESCHEDULED]

reschedule_appointment(appointment_id, new_datetime) ==
    /\ steps < MaxSteps
    /\ steps' = steps + 1
    /\ UNCHANGED <<outbox, threads>>
    /\ call' = [name |-> "reschedule_appointment"]
    /\ IF get_appointment(appointment_id) = None
       THEN ret' = Return(FALSE) /\ UNCHANGED db
       ELSE LET appointment == get_appointment(appointment_id)[1]
            IN  IF ~SlotAvailable(appointment.doctor_id, new_datetime, appointment.duration)
                THEN ret' = Return(FALSE) /\ UNCHANGED db
                ELSE LET updated == Rescheduled(appointment, new_datetime)
                     IN  /\ appointments' = update_record(appointments, updated)
                         /\ ret' = Return(HasId(appointments, updated.id))
                         /\ UNCHANGED <<patients, doctors, predictions, settings>>

\* faulty variant: a completed or no-show appointment is not cancelled
CancelledUnlessClosed(appointment) ==
    IF appointment.status \in {COMPLETED, NO_SHOW}
    THEN appointment
    ELSE [appointment EXCEPT !.status = CANCELLED]

\* appointment.notes += text.  The notes are followed where the stored
\* appointments carry them; a record without the field is left as it is.
WithNote(appointment, text) ==
    IF "notes" \in DOMAIN appointment
    THEN [appointment EXCEPT !.notes = @ \o text]
    ELSE appointment

\* faulty variant: an appointment that is cancelled already is left as it is
CancelledOnce(appointment) ==
    IF appointment.status = CANCELLED
    THEN appointment
    ELSE WithNote([appointment EXCEPT !.status = CANCELLED], "\nCancelled")

\* the appointment record cancel_appointment writes back when the caller
\* gives no reason
Cancelled(appointment) ==
    WithNote([appointment EXCEPT !.status = CANCELLED], "\nCancelled")

cancel_appointment(appointment_id) ==
    /\ steps < MaxSteps
    /\ steps' = steps + 1
    /\ UNCHANGED <<outbox, threads>>
    /\ call' = [name |-> "cancel_appointment"]
    /\ IF get_appointment(appointment_id) = None
       THEN ret' = Return(FALSE) /\ UNCHANGED db
       ELSE LET appointment == get_appointment(appointment_id)[1]
                updated == Cancelled(appointment)
            IN  /\ appointments' = update_record(appointments, updated)
                /\ ret' = Return(HasId(appointments, updated.id))
                /\ UNCHANGED <<patients, doctors, predictions, settings>>

\* the count at which mark_no_show sets the patient's status to high_risk
HighRiskCount == 3

\* the patient record mark_no_show writes back
NoShowPatient(patient) ==
    LET counted == [patient EXCEPT !.no_show_count = @ + 1]
    IN  IF counted.no_show_count >= HighRiskCount
        THEN [counted EXCEPT !.status = HIGH_RISK]
        ELSE counted

mark_no_show(appointment_id) ==
    /\ steps < MaxSteps
    /\ steps' = steps + 1
    /\ UNCHANGED <<outbox, threads>>
    /\ call' = [name |-> "mark_no_show"]
    /\ IF get_appointment(appointment_id) = None
       THEN ret' = Return(FALSE) /\ UNCHANGED db
       ELSE LET appointment == get_appointment(appointment_id)[1]
                updated == [appointment EXCEPT !.status = NO_SHOW]
                patient == get_patient(appointment.patient_id)
            IN  /\ IF patient # None
                   THEN /\ patient[1].no_show_count < MaxNoShows
                        /\ patients' = update_record(patients, NoShowPatient(patient[1]))
                   ELSE UNCHANGED patients
                /\ appointments' = update_record(appointments, updated)
                /\ ret' = Return(HasId(appointments, updated.id))
                /\ UNCHANGED <<doctors, predictions, settings>>

\* faulty variant: a completed visit also clears the patient's no-show record
CompletedPatientForgiven(patient, appointment) ==
    [patient EXCEPT !.last_appointment = Some(appointment.appointment_datetime),
                    !.no_show_count = 0, !.status = ACTIVE]

\* the appointment record complete_appointment writes back when the caller
\* gives no notes
Completed(appointment) ==
    WithNote([appointment EXCEPT !.status = COMPLETED], "\nCompleted")

\* the patient record complete_appointment writes back
CompletedPatient(patient, appointment) ==
    [patient EXCEPT !.last_appointment = Some(appointment.appointment_datetime)]

complete_appointment(appointment_id) ==
    /\ steps < MaxSteps
    /\ steps' = steps + 1
    /\ UNCHANGED <<outbox, threads>>
    /\ call' = [name |-> "complete_appointment"]
    /\ IF get_appointment(appointment_id) = None
       THEN ret' = Return(FALSE) /\ UNCHANGED db
       ELSE LET appointment == get_appointment(appointment_id)[1]
                updated == Completed(appointment)
                patient == get_patient(appointment.patient_id)
            IN  /\ IF patient # None
                   THEN patients' =
                            update_record(patients, CompletedPatient(patient[1], appointment))
                   ELSE UNCHANGED patients
                /\ appointments' = update_record(appointments, updated)
                /\ ret' = Return(HasId(appointments, updated.id))
                /\ UNCHANGED <<doctors, predictions, settings>>

\* faulty variant: the query drops the closed appointments from the store
available_slots_call_pruning(doctor_id, date, appointment_duration) ==
    /\ steps' = steps
    /\ UNCHANGED <<outbox, threads>>
    /\ call' = [name |-> "get_available_slots", doctor_id |-> doctor_id,
                datetime |-> date, duration |-> appointment_duration]
    /\ ret' = Return(get_available_slots(doctor_id, date, appointment_duration))
    /\ appointments' = SelectSeq(appointments, LAMBDA a : a.status \in OccupyingStatuses)
    /\ UNCHANGED <<patients, doctors, predictions, settings>>

\* a caller's get_available_slots(doctor_id, date, appointment_duration)
available_slots_call(doctor_id, date, appointment_duration) ==
    /\ steps' = steps
    /\ UNCHANGED <<outbox, threads>>
    /\ call' = [name |-> "get_available_slots", doctor_id |-> doctor_id,
                datetime |-> date, duration |-> appointment_duration]
    /\ ret' = Return(get_available_slots(doctor_id, date, appointment_duration))
    /\ UNCHANGED db

\* the value of appointment_duration when the caller gives none
DefaultAppointmentDuration == 30

\* a caller's get_available_slots(doctor_id, date), as the demo booking flow calls it
available_slots_default_call(doctor_id, date) ==
    /\ steps' = steps
    /\ UNCHANGED <<outbox, threads>>
    /\ call' = [name |-> "get_available_slots_without_duration", doctor_id |-> doctor_id,
                datetime |-> date]
    /\ ret' = Return(get_available_slots(doctor_id, date, DefaultAppointmentDuration))
    /\ UNCHANGED db

----------------------------------------------------------------------------
(* InsuranceService.verify_insurance *)

Digits == {"0", "1", "2", "3", "4", "5", "6", "7", "8", "9"}

Uppers == {"A", "B", "C", "D", "E", "F", "G", "H", "I", "J", "K", "L", "M",
           "N", "O", "P", "Q", "R", "S", "T", "U", "V", "W", "X", "Y", "Z"}

\* [class]{count}
Rep(class, count) == [class |-> class, count |-> count]

\* insurance_patterns: each pattern is a sequence of [class]{count} pieces
\* between ^ and $
insurance_patterns ==
    [medicare |-> <<Rep(Digits, 3), Rep({"-"}, 1), Rep(Digits, 2), Rep({"-"}, 1), Rep(Digits, 4)>>,
     medicaid |-> <<Rep(Uppers, 2), Rep(Digits, 8)>>,
     blue_cross |-> <<Rep(Uppers, 3), Rep(Digits, 6)>>,
     aetna |-> <<Rep(Digits, 9)>>,
     cigna |-> <<Rep(Digits, 10)>>,
     humana |-> <<Rep(Digits, 9)>>,
     kaiser |-> <<Rep(Digits, 10)>>,
     united_healthcare |-> <<Rep(Digits, 9)>>]

\* re.match(pattern, text) for such a pattern and a text without line breaks
RECURSIVE Match(_, _)
Match(pattern, text) ==
    IF pattern = <<>> THEN text = <<>>
    ELSE LET piece == Head(pattern)
         IN  /\ Len(text) >= piece.count
             /\ \A i \in 1..piece.count : text[i] \in piece.class
             /\ Match(Tail(pattern), SubSeq(text, piece.count + 1, Len(text)))

\* _validate_insurance_number(...)['valid']
ValidInsuranceNumber(provider, insurance_number) ==
    /\ provider \in DOMAIN insurance_patterns
    /\ Match(insurance_patterns[provider], insurance_number)

\* _check_coverage(...)['active']: every provider of coverage_database is
\* active unless the number ends in 0
CoverageActive(provider, insurance_number) ==
    /\ provider \in DOMAIN insurance_patterns
    /\ ~(insurance_number # <<>> /\ insurance_number[Len(insurance_number)] = "0")

verify_insurance(patient_id, appointment_id) ==
    /\ steps < MaxSteps
    /\ steps' = steps + 1
    /\ UNCHANGED <<outbox, threads>>
    /\ call' = [name |-> "verify_insurance"]
    /\ IF get_patient(patient_id) = None \/ get_appointment(appointment_id) = None
       THEN ret' = Return("error") /\ UNCHANGED db
       ELSE LET patient == get_patient(patient_id)[1]
                appointment == get_appointment(appointment_id)[1]
            IN  IF ~ValidInsuranceNumber(patient.insurance_provider, patient.insurance_number)
                THEN ret' = Return("invalid") /\ UNCHANGED db
                ELSE IF ~CoverageActive(patient.insurance_provider, patient.insurance_number)
                THEN ret' = Return("expired") /\ UNCHANGED db
                ELSE /\ patients' = update_record(patients,
                                                  [patient EXCEPT !.insurance_status = VERIFIED])
                     /\ appointments' = update_record(appointments,
                                                      [appointment EXCEPT !.insurance_verified = TRUE])
                     /\ ret' = Return("verified")
                     /\ UNCHANGED <<doctors, predictions, settings>>

----------------------------------------------------------------------------
(* NotificationService *)

\* one notification of a kind for an appointment, as the channel's _send_* sends it
Sent(kind, appointment_id) == SetToBag({<<kind, appointment_id>>})

\* faulty variant: the reminder is sent and the appointment is stored as it was
ReminderSentUnrecorded(appointment) == appointment

\* the appointment record send_appointment_reminder writes back
ReminderSent(appointment) == [appointment EXCEPT !.reminder_sent = TRUE]

\* `success` is what the _send_*_reminder of the patient's channel returned
send_appointment_reminder(appointment_id, success) ==
    /\ steps < MaxSteps
    /\ steps' = steps + 1
    /\ UNCHANGED threads
    /\ call' = [name |-> "send_appointment_reminder"]
    /\ IF get_appointment(appointment_id) = None
       THEN ret' = Return(FALSE) /\ UNCHANGED <<db, outbox>>
       ELSE LET appointment == get_appointment(appointment_id)[1]
            IN  IF \/ get_patient(appointment.patient_id) = None
                   \/ get_doctor(appointment.doctor_id) = None
                THEN ret' = Return(FALSE) /\ UNCHANGED <<db, outbox>>
                ELSE IF appointment.reminder_sent
                THEN ret' = Return(TRUE) /\ UNCHANGED <<db, outbox>>
                ELSE /\ outbox' = IF success THEN outbox (+) Sent("reminder", appointment_id)
                                               ELSE outbox
                     /\ IF success
                        THEN appointments' = update_record(appointments, ReminderSent(appointment))
                        ELSE UNCHANGED appointments
                     /\ ret' = Return(success)
                     /\ UNCHANGED <<patients, doctors, predictions, settings>>

\* `success` is what the _send_*_confirmation of the patient's channel returned
send_appointment_confirmation(appointment_id, success) ==
    /\ steps < MaxSteps
    /\ steps' = steps + 1
    /\ UNCHANGED threads
    /\ call' = [name |-> "send_appointment_confirmation"]
    /\ IF get_appointment(appointment_id) = None
       THEN ret' = Return(FALSE) /\ UNCHANGED <<db, outbox>>
       ELSE LET appointment == get_appointment(appointment_id)[1]
            IN  IF \/ get_patient(appointment.patient_id) = None
                   \/ get_doctor(appointment.doctor_id) = None
                THEN ret' = Return(FALSE) /\ UNCHANGED <<db, outbox>>
                ELSE IF appointment.confirmation_sent
                THEN ret' = Return(TRUE) /\ UNCHANGED <<db, outbox>>
                ELSE /\ outbox' = IF success THEN outbox (+) Sent("confirmation", appointment_id)
                                               ELSE outbox
                     /\ IF success
                        THEN appointments' =
                                 update_record(appointments,
                                               [appointment EXCEPT !.confirmation_sent = TRUE])
                        ELSE UNCHANGED appointments
                     /\ ret' = Return(success)
                     /\ UNCHANGED <<patients, doctors, predictions, settings>>

----------------------------------------------------------------------------
(* Specification *)

Init ==
    /\ patients = RegisteredPatients
    /\ doctors = <<Doctor1>>
    /\ appointments = <<>>
    /\ predictions = <<>>
    /\ settings = <<ClinicSettings(DefaultNoShowThreshold)>>
    /\ call = [name |-> "init"]
    /\ ret = Return(0)
    /\ steps = 0
    /\ outbox = EmptyBag
    /\ threads = <<>>

Next ==
    \/ \E p \in PatientIds, d \in DoctorIds, t \in DateTimes : book_appointment(p, d, t)
    \/ \E a \in AppointmentIds, t \in DateTimes : reschedule_appointment(a, t)
    \/ \E a \in AppointmentIds : cancel_appointment(a)
    \/ \E a \in AppointmentIds : mark_no_show(a)
    \/ \E a \in AppointmentIds : complete_appointment(a)

Spec == Init /\ [][Next]_vars

----------------------------------------------------------------------------
(* The lifecycle on booked appointments that carry their notes *)

\* an appointment of patient 2 as book_appointment stores it when the caller
\* gives no notes
BookedWithNotes(id, appointment_datetime) ==
    [id |-> id, patient_id |-> 2, doctor_id |-> "doc_001",
     appointment_datetime |-> appointment_datetime, duration |-> 45,
     status |-> SCHEDULED, insurance_verified |-> FALSE,
     reminder_sent |-> FALSE, confirmation_sent |-> FALSE, notes |-> ""]

\* one appointment on Monday at 09:00, or a second one at 09:45 as well
InitNotes ==
    /\ patients = RegisteredPatients
    /\ doctors = <<Doctor1>>
    /\ appointments \in {<<BookedWithNotes(1, Combine(0, 9 * 60))>>,
                         <<BookedWithNotes(1, Combine(0, 9 * 60)),
                           BookedWithNotes(2, Combine(0, 9 * 60 + 45))>>}
    /\ predictions = <<>>
    /\ settings = <<ClinicSettings(DefaultNoShowThreshold)>>
    /\ call = [name |-> "init"]
    /\ ret = Return(0)
    /\ steps = 0
    /\ outbox = EmptyBag
    /\ threads = <<>>

\* the appointment ids callers pass: the stored ones and one that is not stored
NotedAppointmentIds == {1, 2, 3}

NextNotes ==
    \/ \E a \in NotedAppointmentIds, t \in DateTimes : reschedule_appointment(a, t)
    \/ \E a \in NotedAppointmentIds : cancel_appointment(a)
    \/ \E a \in NotedAppointmentIds : mark_no_show(a)
    \/ \E a \in NotedAppointmentIds : complete_appointment(a)

SpecNotes == InitNotes /\ [][NextNotes]_vars

\* the clinic set up with HIGH_RISK_PATIENT_THRESHOLD configured to 2, 3 or 4
ConfiguredThresholds == {2, 3, 4}

InitConfigured ==
    /\ patients = RegisteredPatients
    /\ doctors = <<Doctor1>>
    /\ appointments = <<>>
    /\ predictions = <<>>
    /\ settings \in {<<ClinicSettings(n)>> : n \in ConfiguredThresholds}
    /\ call = [name |-> "init"]
    /\ ret = Return(0)
    /\ steps = 0
    /\ outbox = EmptyBag
    /\ threads = <<>>

SpecConfigured == InitConfigured /\ [][Next]_vars

----------------------------------------------------------------------------
(* The lifecycle together with the notifications and the insurance checks *)

\* 1 January of a year 38 years before day 0
BirthDate == Combine(0 - 13880, 0)

\* a text, one character per element
AetnaNumber == <<"1", "2", "3", "4", "5", "6", "7", "8", "7">>

AetnaNumberSuspended == <<"1", "2", "3", "4", "5", "6", "7", "8", "0">>

ShortNumber == <<"1", "2", "3">>

ContactText == <<"J", "a", "n", "e", " ", "5", "5", "5">>

\* three registered patients: a number of the wrong format, a valid policy,
\* a suspended policy
InsuredPatients ==
    <<Patient(1, BirthDate, ContactText, "aetna", ShortNumber, "phone"),
      Patient(2, BirthDate, ContactText, "aetna", AetnaNumber, "email"),
      Patient(4, BirthDate, ContactText, "aetna", AetnaNumberSuspended, "sms")>>

\* Monday 09:00 and 09:45
FlagDateTimes == {Combine(0, 9 * 60), Combine(0, 9 * 60 + 45)}

InitFlags ==
    /\ patients = InsuredPatients
    /\ doctors = <<Doctor1>>
    /\ appointments = <<>>
    /\ predictions = <<>>
    /\ settings = <<ClinicSettings(DefaultNoShowThreshold)>>
    /\ call = [name |-> "init"]
    /\ ret = Return(0)
    /\ steps = 0
    /\ outbox = EmptyBag
    /\ threads = <<>>

\* the appointment ids callers pass: the first appointment and the id after it
FlagAppointmentIds == {1, 2}

NextFlags ==
    \/ \E t \in FlagDateTimes : book_appointment(2, "doc_001", t)
    \/ \E a \in FlagAppointmentIds, t \in FlagDateTimes : reschedule_appointment(a, t)
    \/ \E a \in FlagAppointmentIds : cancel_appointment(a)
    \/ \E a \in FlagAppointmentIds : mark_no_show(a)
    \/ \E a \in FlagAppointmentIds : complete_appointment(a)
    \/ \E a \in FlagAppointmentIds, success \in BOOLEAN : send_appointment_reminder(a, success)
    \/ \E a \in FlagAppointmentIds, success \in BOOLEAN : send_appointment_confirmation(a, success)
    \/ \E p \in 1..4, a \in FlagAppointmentIds : verify_insurance(p, a)

SpecFlags == InitFlags /\ [][NextFlags]_vars

----------------------------------------------------------------------------
(* The availability engine on its own: any stored appointments, any doctor *)
(* of DoctorConfigs, any query                                              *)

\* working hours 09:00-10:30, 09:00-09:50 and an empty window, on some weekdays only
DoctorConfigs ==
    {Doctor1,
     [id |-> "doc_001",
      working_hours |-> [monday |-> [start |-> <<9, 0>>, end |-> <<9, 50>>],
                         tuesday |-> [start |-> <<9, 0>>, end |-> <<9, 0>>]],
      appointment_duration |-> 20]}

\* stored start times, all on a Monday: 09:00, 09:20, 09:45 and 10:30
StoredDateTimes ==
    {Combine(0, 9 * 60), Combine(0, 9 * 60 + 20), Combine(0, 9 * 60 + 45), Combine(0, 10 * 60 + 30)}

StoredStatuses == {SCHEDULED, CONFIRMED, CANCELLED, RESCHEDULED}

\* an appointment record as the store may hold it
StoredAppointment(id, doctor_id, dt, status) ==
    [NewAppointment(id, 2, doctor_id, dt, 45) EXCEPT !.status = status]

RECURSIVE StoredLists(_)
StoredLists(n) ==
    IF n = 0 THEN {<<>>}
    ELSE LET shorter == StoredLists(n - 1)
         IN  shorter \cup
             {Append(l, StoredAppointment(Len(l) + 1, d, t, st)) :
                 l \in {x \in shorter : Len(x) = n - 1},
                 d \in {"doc_001"}, t \in StoredDateTimes, st \in StoredStatuses}

\* the days callers ask the slots of: a Monday morning, a Tuesday, a Wednesday
QueryDates == {Combine(0, 9 * 60 + 30), Combine(1, 0), Combine(2, 0)}

\* the durations callers ask for
Durations == {7, 20, 45, 91}

InitSlots ==
    /\ patients = RegisteredPatients
    /\ doctors \in {<<c>> : c \in DoctorConfigs}
    /\ appointments \in StoredLists(MaxAppointments)
    /\ predictions = <<>>
    /\ settings = <<ClinicSettings(DefaultNoShowThreshold)>>
    /\ call = [name |-> "init"]
    /\ ret = Return(0)
    /\ steps = 0
    /\ outbox = EmptyBag
    /\ threads = <<>>

NextSlots ==
    \/ \E d \in DoctorIds, t \in QueryDates, n \in Durations : available_slots_call(d, t, n)
    \/ \E d \in DoctorIds, t \in QueryDates : available_slots_default_call(d, t)

SpecSlots == InitSlots /\ [][NextSlots]_vars

----------------------------------------------------------------------------
(* The availability engine on the clinic's first doctor, over every status *)

\* doc_001 as setup_clinic stores it
SetupDoctor1 ==
    [id |-> "doc_001",
     working_hours |-> [monday |-> [start |-> <<9, 0>>, end |-> <<17, 0>>],
                        tuesday |-> [start |-> <<9, 0>>, end |-> <<17, 0>>],
                        wednesday |-> [start |-> <<9, 0>>, end |-> <<17, 0>>],
                        thursday |-> [start |-> <<9, 0>>, end |-> <<17, 0>>],
                        friday |-> [start |-> <<9, 0>>, end |-> <<15, 0>>],
                        saturday |-> [start |-> <<10, 0>>, end |-> <<14, 0>>],
                        sunday |-> [start |-> <<10, 0>>, end |-> <<12, 0>>]],
     appointment_duration |-> 30]

\* stored start times of doc_001, all on a Monday: 08:45 (before the window
\* opens), 09:00 and 09:40
DayDateTimes == {Combine(0, 8 * 60 + 45), Combine(0, 9 * 60), Combine(0, 9 * 60 + 40)}

\* the appointments one stored record may be: any status at any of the start
\* times for doc_001, or a scheduled appointment of doc_002 at 09:00
DayAppointments(id) ==
    {StoredAppointment(id, "doc_001", t, st) : t \in DayDateTimes, st \in AppointmentStatus}
    \cup {StoredAppointment(id, "doc_002", Combine(0, 9 * 60), SCHEDULED)}

RECURSIVE DayLists(_)
DayLists(n) ==
    IF n = 0 THEN {<<>>}
    ELSE LET shorter == DayLists(n - 1)
         IN  shorter \cup
             {Append(l, a) : l \in {x \in shorter : Len(x) = n - 1}, a \in DayAppointments(n)}

\* the days callers ask the slots of: Monday 00:00, Monday 13:00, a Sunday
DayQueryDates == {Combine(0, 0), Combine(0, 13 * 60), Combine(6, 0)}

DayDurations == {25, 30, 45}

InitDay ==
    /\ patients = RegisteredPatients
    /\ doctors = <<SetupDoctor1>>
    /\ appointments \in DayLists(MaxAppointments)
    /\ predictions = <<>>
    /\ settings = <<ClinicSettings(DefaultNoShowThreshold)>>
    /\ call = [name |-> "init"]
    /\ ret = Return(0)
    /\ steps = 0
    /\ outbox = EmptyBag
    /\ threads = <<>>

NextDay ==
    \E t \in DayQueryDates, n \in DayDurations : available_slots_call("doc_001", t, n)

SpecDay == InitDay /\ [][NextDay]_vars

----------------------------------------------------------------------------
(* Floating point: the sums of the predictor's literals *)

\* A binary64 value of magnitude below 2 is held as the integer value * 2^57,
\* split in two limbs: value * 2^57 = hi * LimbBase + lo with 0 <= lo < LimbBase
\* (a negative value has a negative hi).  Every literal below and every sum of
\* them is a multiple of 2^-57, so the limbs hold the values exactly and only
\* the rounding of a sum to 53 significant bits has to be computed.
LimbBase == 2^29

Float(hi, lo) == [hi |-> hi, lo |-> lo]

\* the literals as float(...) reads them
Lit_0_0 == Float(0, 0)

Lit_0_05 == Float(13421772, 429496730)

Lit_0_1 == Float(26843545, 322122548)

Lit_0_15 == Float(40265318, 214748364)

Lit_0_2 == Float(53687091, 107374184)

Lit_0_3 == Float(80530636, 429496728)

Lit_1_0 == Float(268435456, 0)

\* the element of a one-element set: an operand drawn from {operand} is
\* computed once
Only(S) == CHOOSE v \in S : TRUE

\* the value hi * LimbBase + lo with the second limb brought into range
Carry(hi, lo) == Float(hi + (lo \div LimbBase), lo % LimbBase)

FNeg(x) ==
    Only({IF v.lo = 0 THEN Float(0 - v.hi, 0) ELSE Float(0 - v.hi - 1, LimbBase - v.lo) :
          v \in {x}})

\* x < y
FLess(x, y) ==
    Only({a.hi < b.hi \/ (a.hi = b.hi /\ a.lo < b.lo) : a \in {x}, b \in {y}})

FMin(x, y) == Only({IF FLess(b, a) THEN b ELSE a : a \in {x}, b \in {y}})

FMax(x, y) == Only({IF FLess(a, b) THEN b ELSE a : a \in {x}, b \in {y}})

\* the number of low bits a magnitude has beyond 53 significant bits
ExcessBits(hi) ==
    IF hi < 2^24 THEN 0
    ELSE IF hi < 2^25 THEN 1
    ELSE IF hi < 2^26 THEN 2
    ELSE IF hi < 2^27 THEN 3
    ELSE IF hi < 2^28 THEN 4
    ELSE 5

\* round a magnitude to 53 significant bits, to nearest, ties to even
RoundMagnitude(m) ==
    Only({Only({Carry(v.hi, IF 2 * r > q \/ (2 * r = q /\ ((v.lo - r) \div q) % 2 = 1)
                            THEN v.lo - r + q
                            ELSE v.lo - r) :
                r \in {v.lo % q}}) :
          v \in {m}, q \in {2^ExcessBits(m.hi)}})

FRound(x) ==
    Only({IF v.hi < 0 THEN FNeg(RoundMagnitude(FNeg(v))) ELSE RoundMagnitude(v) :
          v \in {x}})

\* x + y in binary64
FAdd(x, y) == Only({FRound(Carry(a.hi + b.hi, a.lo + b.lo)) : a \in {x}, b \in {y}})

\* scores outside the sums above are exact rationals in units of 1/ScoreScale
ScoreScale == 20 * 900

\* the decimal value a sum of the literals stands for (its nearest twentieth),
\* in units of 1/ScoreScale
Decimal(x) == (((x.hi \div 2^8) * 20 + 2^19) \div 2^20) * (ScoreScale \div 20)

----------------------------------------------------------------------------
(* The no-show predictor *)

\* str.lower() on the provider names in use
Lower(s) ==
    CASE s = "Medicare" -> "medicare"
      [] s = "Aetna" -> "aetna"
      [] OTHER -> s

\* str.strip() of a text: the blanks at both ends are dropped
RECURSIVE StripLeft(_)
StripLeft(s) == IF s # <<>> /\ Head(s) = " " THEN StripLeft(Tail(s)) ELSE s

RECURSIVE StripRight(_)
StripRight(s) ==
    IF s # <<>> /\ s[Len(s)] = " " THEN StripRight(SubSeq(s, 1, Len(s) - 1)) ELSE s

Strip(s) == StripRight(StripLeft(s))

\* Appointment(...) with the fields the predictor reads
Appointment(id, patient_id, doctor_id, appointment_datetime, status, insurance_verified, created_at) ==
    [id |-> id, patient_id |-> patient_id, doctor_id |-> doctor_id,
     appointment_datetime |-> appointment_datetime, duration |-> 30,
     status |-> status, insurance_verified |-> insurance_verified,
     reminder_sent |-> FALSE, confirmation_sent |-> FALSE,
     created_at |-> created_at]

\* db.get_appointments(patient_id=...)
get_appointments_of_patient(patient_id) ==
    SelectSeq(appointments, LAMBDA a : a.patient_id = patient_id)

\* sum(1 for a in list if a.status == NO_SHOW)
NoShowsIn(list) == Cardinality({i \in DOMAIN list : list[i].status = NO_SHOW})

\* the historical sub-score of the appointments of a patient, in units of
\* 1/ScoreScale; now is datetime.now()
HistoricalRisk(list, now) ==
    LET total_appointments == Len(list)
        recent_appointments ==
            SelectSeq(list, LAMBDA a : a.appointment_datetime > now - 90 * MinutesPerDay)
        \* 10 * no_show_rate
        rate10 == (10 * ScoreScale * NoShowsIn(list)) \div total_appointments
        blended10 ==
            IF recent_appointments # <<>>
            THEN (3 * rate10) \div 10
                 + (7 * ScoreScale * NoShowsIn(recent_appointments))
                   \div Len(recent_appointments)
            ELSE rate10
        doubled == (2 * blended10) \div 10
    IN  IF total_appointments < 2
        THEN (3 * ScoreScale) \div 10
        ELSE IF doubled > ScoreScale THEN ScoreScale ELSE doubled

_calculate_historical_risk(patient, now) ==
    Only({HistoricalRisk(list, now) : list \in {get_appointments_of_patient(patient.id)}})

\* The sums below add one term per `risk += ...` of the code; a term that the
\* code does not add is the term 0.0, which leaves a binary64 sum as it is.

\* the timing sub-score
_calculate_timing_risk(appointment) ==
    LET appointment_time == appointment.appointment_datetime
        weekday == DateOf(appointment_time) % 7
        hour == (appointment_time % MinutesPerDay) \div 60
        days_advance == (appointment_time - appointment.created_at) \div MinutesPerDay
        day_of_week == IF weekday = 0 THEN Lit_0_1
                       ELSE IF weekday = 4 THEN Lit_0_15
                       ELSE IF weekday >= 5 THEN Lit_0_2
                       ELSE Lit_0_0
        time_of_day == IF hour < 9 \/ hour > 16 THEN Lit_0_1
                       ELSE IF hour = 12 THEN Lit_0_05
                       ELSE Lit_0_0
        advance == IF days_advance > 30 THEN Lit_0_1
                   ELSE IF days_advance > 60 THEN Lit_0_2
                   ELSE Lit_0_0
        last_minute == IF days_advance < 1 THEN Lit_0_15 ELSE Lit_0_0
    IN  FMin(Lit_1_0,
             FAdd(FAdd(FAdd(FAdd(Lit_0_0, day_of_week), time_of_day), advance),
                  last_minute))

\* the demographic sub-score; now is datetime.now().  The age is
\* days / 365.25, so age < 25 is 4 * days < 25 * 1461.
_calculate_demographic_risk(patient, now) ==
    LET days == (now - patient.date_of_birth) \div MinutesPerDay
        age == IF 4 * days < 25 * 1461 THEN Lit_0_2
               ELSE IF 4 * days < 35 * 1461 THEN Lit_0_1
               ELSE IF 4 * days > 65 * 1461 THEN FNeg(Lit_0_1)
               ELSE Lit_0_0
        communication == IF patient.preferred_communication = "email"
                         THEN Lit_0_05 ELSE Lit_0_0
        status == IF patient.status = HIGH_RISK THEN Lit_0_3 ELSE Lit_0_0
        contact == IF patient.emergency_contact = <<>>
                      \/ Len(Strip(patient.emergency_contact)) < 5
                   THEN Lit_0_1 ELSE Lit_0_0
    IN  FMax(Lit_0_0,
             FMin(Lit_1_0,
                  FAdd(FAdd(FAdd(FAdd(Lit_0_0, age), communication), status), contact)))

unreliable_providers == <<"medicaid", "medicare", "self_pay">>

\* the financial sub-score
_calculate_financial_risk(patient, appointment) ==
    LET verification == IF ~appointment.insurance_verified THEN Lit_0_2 ELSE Lit_0_0
        provider == IF InList(Lower(patient.insurance_provider), unreliable_providers)
                    THEN Lit_0_1 ELSE Lit_0_0
        number == IF Len(patient.insurance_number) < 5 THEN Lit_0_15 ELSE Lit_0_0
    IN  FMin(Lit_1_0, FAdd(FAdd(FAdd(Lit_0_0, verification), provider), number))

\* NoShowPrediction(...); the risk_score is in units of 1/(100 * ScoreScale)
NoShowPrediction(patient_id, appointment_id, risk_score, risk_factors, prediction_date) ==
    [patient_id |-> patient_id, appointment_id |-> appointment_id,
     risk_score |-> risk_score, risk_factors |-> risk_factors,
     prediction_date |-> prediction_date]

\* faulty variant: a quarter of the weight for the historical sub-score
EqualWeight == 100 \div 4

\* the weights of the four sub-scores, in hundredths
HistoricalWeight == 40

TimingWeight == 25

DemographicWeight == 20

FinancialWeight == 15

\* x > 0.3 for a sub-score in units of 1/ScoreScale
Exceeds(x) == 10 * x > 3 * ScoreScale

\* faulty variant: the label is put in front of the list
PrependIf(list, condition, label) == IF condition THEN <<label>> \o list ELSE list

\* list.append(label) when the condition holds
AppendIf(list, condition, label) == IF condition THEN Append(list, label) ELSE list

\* max(0.0, min(1.0, risk_score)) in units of 1/(100 * ScoreScale)
Clamp(risk_score) ==
    IF risk_score > 100 * ScoreScale THEN 100 * ScoreScale
    ELSE IF risk_score < 0 THEN 0
    ELSE risk_score

\* the prediction predict_no_show_risk builds for a stored patient and a
\* stored appointment.  The products and the sum of the final score are taken
\* on the decimal values of the sub-scores; their rounding is not modelled.
Prediction(patient_id, appointment_id, now) ==
    Only({NoShowPrediction(
              patient_id, appointment_id,
              Clamp(HistoricalWeight * historical_risk
                    + TimingWeight * Decimal(timing_risk)
                    + DemographicWeight * Decimal(demographic_risk)
                    + FinancialWeight * Decimal(financial_risk)),
              AppendIf(AppendIf(AppendIf(AppendIf(<<>>,
                           Exceeds(historical_risk), "High historical no-show rate"),
                           FLess(Lit_0_3, timing_risk), "Unfavorable appointment timing"),
                           FLess(Lit_0_3, demographic_risk), "Demographic risk factors"),
                           FLess(Lit_0_3, financial_risk), "Insurance/financial concerns"),
              now) :
          historical_risk \in {_calculate_historical_risk(Pat(patient_id), now)},
          timing_risk \in {_calculate_timing_risk(Appt(appointment_id))},
          demographic_risk \in {_calculate_demographic_risk(Pat(patient_id), now)},
          financial_risk \in {_calculate_financial_risk(Pat(patient_id),
                                                        Appt(appointment_id))}})

\* faulty variant: the stored predictions of the appointment are kept
StoredWithKeepingOld(store, prediction) == Append(store, prediction)

\* add_no_show_prediction: the stored predictions of the appointment are
\* dropped and the new one is appended
StoredWith(store, prediction) ==
    Append(SelectSeq(store, LAMBDA p : p.appointment_id # prediction.appointment_id),
           prediction)

\* get_no_show_prediction on a list of stored predictions
StoredFor(store, appointment_id) ==
    LET found == SelectSeq(store, LAMBDA p : p.appointment_id = appointment_id)
    IN  IF found = <<>> THEN None ELSE Some(Head(found))

get_no_show_prediction(appointment_id) == StoredFor(predictions, appointment_id)

\* the risk level book_appointment reports for a risk_score
risk_level(risk_score) ==
    IF risk_score > 60 * ScoreScale THEN "High"
    ELSE IF risk_score > 30 * ScoreScale THEN "Medium"
    ELSE "Low"

\* predict_no_show_risk at the wall-clock time now
predict_no_show_risk(patient_id, appointment_id, now) ==
    /\ now >= call.now
    /\ call' = [name |-> "predict_no_show_risk", patient_id |-> patient_id,
                appointment_id |-> appointment_id, now |-> now]
    /\ steps' = steps
    /\ UNCHANGED <<outbox, threads>>
    /\ IF get_patient(patient_id) = None \/ get_appointment(appointment_id) = None
       THEN /\ ret' = Raise("Patient or appointment not found")
            /\ UNCHANGED db
       ELSE \E prediction \in {Prediction(patient_id, appointment_id, now)} :
                /\ predictions' = StoredWith(predictions, prediction)
                /\ ret' = Return(prediction)
                /\ UNCHANGED <<patients, doctors, appointments, settings>>

\* the loop of get_high_risk_appointments from the i-th appointment on: store
\* is the list of stored predictions so far, found the pairs collected so far
\* (each as <<appointment id, prediction>>)
RECURSIVE HighRiskLoop(_, _, _, _, _)
HighRiskLoop(i, stored_so_far, found_so_far, risk_threshold, now) ==
    Only({
        IF i > Len(appointments)
        THEN [raised |-> FALSE, store |-> store, value |-> found]
        ELSE LET appointment == appointments[i]
                 stored == StoredFor(store, appointment.id)
             IN  IF appointment.status \notin {SCHEDULED, CONFIRMED}
                 THEN HighRiskLoop(i + 1, store, found, risk_threshold, now)
                 ELSE IF stored # None
                 THEN HighRiskLoop(i + 1, store,
                                   AppendIf(found, stored[1].risk_score >= risk_threshold,
                                            <<appointment.id, stored[1]>>),
                                   risk_threshold, now)
                 ELSE IF get_patient(appointment.patient_id) = None
                 THEN [raised |-> TRUE, store |-> store,
                       value |-> "Patient or appointment not found"]
                 ELSE Only({
                          HighRiskLoop(i + 1, StoredWith(store, prediction),
                                       AppendIf(found,
                                                prediction.risk_score >= risk_threshold,
                                                <<appointment.id, prediction>>),
                                       risk_threshold, now) :
                          prediction \in {Prediction(appointment.patient_id,
                                                     appointment.id, now)}}) :
        store \in {stored_so_far}, found \in {found_so_far}})

\* get_high_risk_appointments(risk_threshold) at the wall-clock time now; the
\* threshold is in units of 1/(100 * ScoreScale)
get_high_risk_appointments(risk_threshold, now) ==
    \E result \in {HighRiskLoop(1, predictions, <<>>, risk_threshold, now)} :
        /\ now >= call.now
        /\ call' = [name |-> "get_high_risk_appointments",
                    risk_threshold |-> risk_threshold, now |-> now]
        /\ steps' = steps
        /\ UNCHANGED <<outbox, threads>>
        /\ predictions' = result.store
        /\ ret' = [raised |-> result.raised, value |-> result.value]
        /\ UNCHANGED <<patients, doctors, appointments, settings>>

----------------------------------------------------------------------------
(* The predictor on stored patients and appointments *)

\* the wall clock at the first and at a later call: a Friday at 09:00 and
\* the day after it
Now0 == Combine(4, 9 * 60)

Now1 == Combine(5, 9 * 60)

Clock == {Now0, Now1}

\* dates of birth: age 20, 25 between the two calls, 30, 40 and 70
BornTwenty == Combine(0 - 7300, 0)

BornTurning25 == Combine(0 - 9127, 0)

BornThirty == Combine(0 - 10950, 0)

BornForty == Combine(0 - 14700, 0)

BornSeventy == Combine(0 - 25600, 0)

BirthDates == {BornTwenty, BornTurning25, BornThirty, BornForty, BornSeventy}

\* an emergency contact of fewer than five characters between blanks
PaddedContact == <<" ", " ", "a", "b", " ", " ", " ">>

\* status, preferred_communication and emergency_contact of a patient
Behaviours ==
    {<<ACTIVE, "phone", ContactText>>, <<ACTIVE, "email", <<>>>>,
     <<HIGH_RISK, "phone", ContactText>>, <<HIGH_RISK, "email", PaddedContact>>}

RiskPatient(date_of_birth, behaviour, insurance_provider, insurance_number) ==
    [Patient(1, date_of_birth, behaviour[3], insurance_provider, insurance_number,
             behaviour[2])
        EXCEPT !.status = behaviour[1]]

\* the appointment to score, of patient 1
Target(appointment_datetime, status, insurance_verified, created_at) ==
    Appointment(1, 1, "doc_001", appointment_datetime, status, insurance_verified,
                created_at)

\* a Tuesday at 10:00 booked five days ahead; a Monday at 08:00 booked 45 days
\* ahead; a Friday at 12:00 booked the same morning; a Saturday at 17:00
\* booked 61 days ahead; a Friday at 10:00 booked the same morning
TuesdayAtTen == Combine(8, 10 * 60)

MondayAtEight == Combine(7, 8 * 60)

FridayAtNoon == Combine(4, 12 * 60)

SaturdayAtFive == Combine(5, 17 * 60)

FridayAtTen == Combine(4, 10 * 60)

\* the appointment to score with the insurance of its patient
Visits ==
    {[target |-> Target(TuesdayAtTen, SCHEDULED, TRUE, TuesdayAtTen - 5 * MinutesPerDay),
      provider |-> "Aetna", number |-> AetnaNumber],
     [target |-> Target(TuesdayAtTen, SCHEDULED, FALSE, TuesdayAtTen - 5 * MinutesPerDay),
      provider |-> "Aetna", number |-> AetnaNumber],
     [target |-> Target(MondayAtEight, SCHEDULED, FALSE, MondayAtEight - 45 * MinutesPerDay),
      provider |-> "Medicare", number |-> AetnaNumber],
     [target |-> Target(MondayAtEight, SCHEDULED, TRUE, MondayAtEight - 45 * MinutesPerDay),
      provider |-> "Aetna", number |-> ShortNumber],
     [target |-> Target(FridayAtNoon, CONFIRMED, FALSE, FridayAtNoon - 4 * 60),
      provider |-> "self_pay", number |-> ShortNumber],
     [target |-> Target(SaturdayAtFive, SCHEDULED, TRUE, SaturdayAtFive - 61 * MinutesPerDay),
      provider |-> "self_pay", number |-> ShortNumber],
     [target |-> Target(FridayAtTen, SCHEDULED, TRUE, FridayAtTen - 90),
      provider |-> "Medicare", number |-> AetnaNumber]}

\* an appointment 30 days ago, one 200 days ago, and one that is 90 days old
\* between the two calls
LastMonth == Combine(0 - 26, 9 * 60)

LongAgo == Combine(0 - 196, 9 * 60)

NinetyDaysAgo == Now0 - 90 * MinutesPerDay + 12 * 60

Past(id, patient_id, appointment_datetime, status) ==
    Appointment(id, patient_id, "doc_001", appointment_datetime, status, FALSE,
                appointment_datetime - 7 * MinutesPerDay)

\* the other stored appointments
Histories ==
    {<<>>,
     <<Past(2, 1, LastMonth, NO_SHOW)>>,
     <<Past(2, 1, LongAgo, NO_SHOW), Past(3, 1, LastMonth, SCHEDULED)>>,
     <<Past(2, 1, NinetyDaysAgo, NO_SHOW), Past(3, 1, LongAgo, COMPLETED)>>,
     <<Past(2, 1, LongAgo, COMPLETED), Past(3, 9, LastMonth, SCHEDULED)>>}

InitRisk ==
    /\ \E b \in BirthDates, h \in Behaviours, visit \in Visits, history \in Histories :
           /\ patients = <<RiskPatient(b, h, visit.provider, visit.number)>>
           /\ appointments = <<visit.target>> \o history
    /\ doctors = <<Doctor1>>
    /\ predictions = <<>>
    /\ settings = <<ClinicSettings(DefaultNoShowThreshold)>>
    /\ call = [name |-> "init", now |-> Now0]
    /\ ret = Return(0)
    /\ steps = 0
    /\ outbox = EmptyBag
    /\ threads = <<>>

\* the ids callers pass: the stored ones and one that is not stored
RiskPatientIds == {1, 9}

RiskAppointmentIds == {1, 9}

\* the default threshold 0.6 and a lower one
RiskThresholds == {60 * ScoreScale, 20 * ScoreScale}

NextRisk ==
    \/ \E p \in RiskPatientIds, a \in RiskAppointmentIds, now \in Clock :
           predict_no_show_risk(p, a, now)
    \/ \E risk_threshold \in RiskThresholds, now \in Clock :
           get_high_risk_appointments(risk_threshold, now)

SpecRisk == InitRisk /\ [][NextRisk]_vars

----------------------------------------------------------------------------
(* Properties *)

\* C1: booking a slot that get_available_slots returns for the doctor's own
\* duration succeeds and adds exactly one appointment; a second booking of the
\* same doctor at the same start time, made right after it by a known patient,
\* is rejected as not available and adds nothing.
C1_BookAvailableSlotOnce ==
    [][/\ \A p \in PatientIds, d \in DoctorIds, t \in DateTimes :
            ( /\ book_appointment(p, d, t)
              /\ get_patient(p) # None
              /\ get_doctor(d) # None
              /\ InList(t, get_available_slots(d, t, get_doctor(d)[1].appointment_duration)) )
            => /\ ~ret'.raised
               /\ Len(appointments') = Len(appointments) + 1
       /\ ( /\ call.name = "book_appointment"
            /\ ~ret.raised )
          => \A p \in PatientIds :
                ( /\ get_patient(p) # None
                  /\ book_appointment(p, Appt(ret.value).doctor_id,
                                      Appt(ret.value).appointment_datetime) )
                => /\ ret' = Raise("Appointment slot not available")
                   /\ appointments' = appointments
      ]_vars

\* a booking has just been refused as not available while the appointment
\* booked last is still scheduled
C1_Witness ==
    /\ call.name = "book_appointment"
    /\ ret = Raise("Appointment slot not available")
    /\ appointments # <<>>
    /\ appointments[Len(appointments)].status = SCHEDULED
    /\ \A i \in DOMAIN appointments : appointments[i].status = SCHEDULED

\* the working window of the queried doctor on the queried day
WindowStart(doctor_id, date) ==
    Combine(DateOf(date), ParseTime(get_doctor(doctor_id)[1].working_hours[DayName(date)].start))

WindowEnd(doctor_id, date) ==
    Combine(DateOf(date), ParseTime(get_doctor(doctor_id)[1].working_hours[DayName(date)].end))

HasWindow(doctor_id, date) ==
    /\ get_doctor(doctor_id) # None
    /\ DayName(date) \in DOMAIN get_doctor(doctor_id)[1].working_hours

\* C2: every slot get_available_slots returns starts at or after the window's
\* start, ends at or before the window's end, and lies a whole number of
\* durations after the window's start.
C2_SlotsInsideWindowOnGrid ==
    ( /\ call.name = "get_available_slots"
      /\ HasWindow(call.doctor_id, call.datetime)
      /\ call.duration >= 1 )
    => \A i \in DOMAIN ret.value :
          LET s == ret.value[i]
              window_start == WindowStart(call.doctor_id, call.datetime)
              window_end == WindowEnd(call.doctor_id, call.datetime)
          IN  /\ s >= window_start
              /\ s + call.duration <= window_end
              /\ \E k \in 0..(window_end - window_start) : s = window_start + k * call.duration

\* a query that returned slots although an occupying appointment removed one
C2_Witness ==
    /\ call.name = "get_available_slots"
    /\ HasWindow(call.doctor_id, call.datetime)
    /\ Len(ret.value) >= 2
    /\ \E i \in DOMAIN appointments :
          /\ appointments[i].status \in OccupyingStatuses
          /\ appointments[i].appointment_datetime = WindowStart(call.doctor_id, call.datetime)
    /\ ~InList(WindowStart(call.doctor_id, call.datetime), ret.value)

\* C3: after a scheduled appointment is cancelled, the slots of its doctor on
\* its day, for its duration, contain its start time.
C3_CancelFreesSlot ==
    [][\A a \in AppointmentIds :
          ( /\ cancel_appointment(a)
            /\ get_appointment(a) # None
            /\ Appt(a).status = SCHEDULED )
          => InList(Appt(a).appointment_datetime,
                    get_available_slots(Appt(a).doctor_id, Appt(a).appointment_datetime,
                                        Appt(a).duration)')
      ]_vars

\* an appointment has just been cancelled and its start time is offered again
C3_Witness ==
    /\ call.name = "cancel_appointment"
    /\ ret = Return(TRUE)
    /\ \E i \in DOMAIN appointments :
          /\ appointments[i].status = CANCELLED
          /\ InList(appointments[i].appointment_datetime,
                    get_available_slots(appointments[i].doctor_id,
                                        appointments[i].appointment_datetime,
                                        appointments[i].duration))
          /\ \A j \in DOMAIN appointments : j # i => appointments[j].status = SCHEDULED
    /\ Len(appointments) = MaxAppointments

\* C4: every mark_no_show on a stored appointment of an existing patient adds
\* exactly 1 to the patient's no_show_count, and the patient's status turns to
\* high_risk in exactly the call in which the count first reaches the clinic's
\* configured no_show_threshold.
C4_NoShowCountAndConfiguredThreshold ==
    [][\A a \in AppointmentIds :
          ( /\ mark_no_show(a)
            /\ get_appointment(a) # None
            /\ get_patient(Appt(a).patient_id) # None )
          => LET before == Pat(Appt(a).patient_id)
                 after == Pat(Appt(a).patient_id)'
             IN  /\ after.no_show_count = before.no_show_count + 1
                 /\ (before.status # HIGH_RISK /\ after.status = HIGH_RISK)
                    <=> ( /\ before.no_show_count < no_show_threshold
                          /\ after.no_show_count >= no_show_threshold )
      ]_vars

\* C5: a patient's status is high_risk exactly when the patient's
\* no_show_count is at least the clinic's configured no_show_threshold.
C5_HighRiskIffCountAtThreshold ==
    \A i \in DOMAIN patients :
        (patients[i].status = HIGH_RISK) <=> (patients[i].no_show_count >= no_show_threshold)

TerminalStatuses == {COMPLETED, CANCELLED, NO_SHOW}

C7_BookRejectsWithoutChange ==
    [][\A p \in PatientIds, d \in DoctorIds, t \in DateTimes :
          ( /\ book_appointment(p, d, t)
            /\ \/ get_patient(p) = None
               \/ get_doctor(d) = None
               \/ ~InList(t, get_available_slots(d, t, get_doctor(d)[1].appointment_duration)) )
          => /\ ret'.raised
             /\ UNCHANGED <<patients, doctors, appointments, predictions>>
      ]_vars

\* a booking for a doctor nobody has was refused while appointments are stored
C7_Witness ==
    /\ call.name = "book_appointment"
    /\ ret = Raise("Doctor not found")
    /\ appointments # <<>>

\* C8: a successful book_appointment appends one appointment with an id no
\* stored appointment has, status scheduled, the given patient, doctor and
\* start time and the doctor's appointment_duration, and changes nothing else.
C8_BookAddsOneScheduledAppointment ==
    [][\A p \in PatientIds, d \in DoctorIds, t \in DateTimes :
          ( /\ book_appointment(p, d, t)
            /\ ~ret'.raised )
          => /\ Len(appointments') = Len(appointments) + 1
             /\ SubSeq(appointments', 1, Len(appointments)) = appointments
             /\ LET new == appointments'[Len(appointments')]
                IN  /\ new.id = ret'.value
                    /\ ~HasId(appointments, new.id)
                    /\ new.status = SCHEDULED
                    /\ new.patient_id = p
                    /\ new.doctor_id = d
                    /\ new.appointment_datetime = t
                    /\ new.duration = get_doctor(d)[1].appointment_duration
             /\ UNCHANGED <<patients, doctors, predictions, settings>>
      ]_vars

\* a second appointment has just been booked beside one that is no longer scheduled
C8_Witness ==
    /\ call.name = "book_appointment"
    /\ ~ret.raised
    /\ Len(appointments) = 2
    /\ appointments[2].id = ret.value
    /\ appointments[2].status = SCHEDULED
    /\ appointments[1].status # SCHEDULED

\* C9: reschedule_appointment returns true exactly when the appointment is
\* stored and the new start time is among the available slots of its doctor
\* for its own duration; then the appointment has the new start time and status
\* rescheduled; when it returns false no stored record changes.
C9_RescheduleIffAvailable ==
    [][\A a \in AppointmentIds, t \in DateTimes :
          reschedule_appointment(a, t)
          => /\ (ret' = Return(TRUE))
                <=> ( /\ get_appointment(a) # None
                      /\ InList(t, get_available_slots(Appt(a).doctor_id, t, Appt(a).duration)) )
             /\ ret' \in {Return(TRUE), Return(FALSE)}
             /\ ret' = Return(TRUE)
                => /\ Appt(a)'.appointment_datetime = t
                   /\ Appt(a)'.status = RESCHEDULED
             /\ ret' = Return(FALSE) => UNCHANGED db
      ]_vars

\* an appointment has just been moved to the second slot of the day while
\* another appointment is stored
C9_Witness ==
    /\ call.name = "reschedule_appointment"
    /\ ret = Return(TRUE)
    /\ Len(appointments) = 2
    /\ \E i \in DOMAIN appointments :
          /\ appointments[i].status = RESCHEDULED
          /\ appointments[i].appointment_datetime = Combine(0, 9 * 60 + 45)

\* C10: reschedule, cancel, mark_no_show and complete return false and change
\* no patient or appointment when no stored appointment has the id; cancel on a
\* stored appointment returns true and leaves it cancelled whatever its status.
C10_UnknownIdFalseCancelAlways ==
    [][\A a \in AppointmentIds :
          /\ ( /\ get_appointment(a) = None
               /\ \/ cancel_appointment(a)
                  \/ mark_no_show(a)
                  \/ complete_appointment(a)
                  \/ \E t \in DateTimes : reschedule_appointment(a, t) )
             => /\ ret' = Return(FALSE)
                /\ UNCHANGED <<patients, appointments>>
          /\ ( /\ get_appointment(a) # None
               /\ cancel_appointment(a) )
             => /\ ret' = Return(TRUE)
                /\ Appt(a)'.status = CANCELLED
      ]_vars

\* the patient's only appointment was completed and has then been cancelled
C10_Witness ==
    /\ call.name = "cancel_appointment"
    /\ ret = Return(TRUE)
    /\ Len(appointments) = 1
    /\ appointments[1].status = CANCELLED
    /\ Pat(appointments[1].patient_id).last_appointment # None

\* C11: get_available_slots writes nothing: whatever the doctor id, the date
\* and the duration, patients, doctors, appointments and predictions are after
\* the call what they were before it, and a call repeated on the same stored
\* state with the same arguments returns the same sequence.
C11_SlotsQueryWritesNothing ==
    [][call'.name = "get_available_slots"
       => \/ /\ UNCHANGED <<patients, doctors, appointments, predictions>>
             /\ ( /\ call.name = "get_available_slots"
                  /\ call.doctor_id = call'.doctor_id
                  /\ call.datetime = call'.datetime
                  /\ call.duration = call'.duration )
                => ret' = ret
          \/ ~available_slots_call(call'.doctor_id, call'.datetime, call'.duration)
      ]_vars

\* a query has returned slots while closed and occupying appointments are stored
C11_Witness ==
    /\ call.name = "get_available_slots"
    /\ ret.value # <<>>
    /\ \E i \in DOMAIN appointments : appointments[i].status \in OccupyingStatuses
    /\ \E i \in DOMAIN appointments : appointments[i].status \notin OccupyingStatuses

\* the candidate start times of a window for a positive duration
Candidates(window_start, window_end, d) ==
    {window_start + k * d : k \in {j \in 0..((window_end - window_start) \div d) :
                                       window_start + j * d + d <= window_end}}

\* a scheduled or confirmed appointment of the doctor starts at c
OccupiedAt(doctor_id, c) ==
    \E i \in DOMAIN appointments :
        /\ appointments[i].doctor_id = doctor_id
        /\ appointments[i].status \in {SCHEDULED, CONFIRMED}
        /\ appointments[i].appointment_datetime = c

\* the doctor is closed on the weekday of the date
ClosedDay(doctor_id, date) ==
    /\ get_doctor(doctor_id) # None
    /\ DayName(date) \notin DOMAIN get_doctor(doctor_id)[1].working_hours

\* every candidate of the day carries a scheduled or confirmed appointment
FullyBooked(doctor_id, date, d) ==
    /\ HasWindow(doctor_id, date)
    /\ \A c \in Candidates(WindowStart(doctor_id, date), WindowEnd(doctor_id, date), d) :
          OccupiedAt(doctor_id, c)

\* C12: for a positive duration get_available_slots returns the empty
\* sequence, and raises nothing, when the doctor has no working hours on the
\* weekday of the date, when the window has zero length, when the duration is
\* longer than the window, and when every candidate of the day is occupied.
C12_ClosedOrFullDayIsEmpty ==
    ( /\ call.name = "get_available_slots"
      /\ call.duration >= 1
      /\ \/ ClosedDay(call.doctor_id, call.datetime)
         \/ /\ HasWindow(call.doctor_id, call.datetime)
            /\ \/ WindowEnd(call.doctor_id, call.datetime)
                     = WindowStart(call.doctor_id, call.datetime)
               \/ call.duration > WindowEnd(call.doctor_id, call.datetime)
                                    - WindowStart(call.doctor_id, call.datetime)
         \/ FullyBooked(call.doctor_id, call.datetime, call.duration) )
    => ret = Return(<<>>)

\* a query for a day with two candidates, both occupied, one of them by a
\* confirmed appointment
C12_Witness ==
    /\ call.name = "get_available_slots"
    /\ call.duration >= 1
    /\ FullyBooked(call.doctor_id, call.datetime, call.duration)
    /\ Cardinality(Candidates(WindowStart(call.doctor_id, call.datetime),
                              WindowEnd(call.doctor_id, call.datetime), call.duration)) = 2
    /\ \E i \in DOMAIN appointments : appointments[i].status = CONFIRMED
    /\ ret = Return(<<>>)

\* C13: a get_available_slots call without a duration returns what the call
\* with the queried doctor's appointment_duration returns.
C13_DefaultDurationIsDoctors ==
    ( /\ call.name = "get_available_slots_without_duration"
      /\ get_doctor(call.doctor_id) # None )
    => ret.value = get_available_slots(call.doctor_id, call.datetime,
                                       get_doctor(call.doctor_id)[1].appointment_duration)

\* a scheduled or confirmed appointment of the doctor that starts inside the
\* closed window lies less than d minutes from c
Blocked(doctor_id, window_start, window_end, c, d) ==
    \E i \in DOMAIN appointments :
        /\ appointments[i].doctor_id = doctor_id
        /\ appointments[i].status \in {SCHEDULED, CONFIRMED}
        /\ appointments[i].appointment_datetime >= window_start
        /\ appointments[i].appointment_datetime <= window_end
        /\ Abs(c - appointments[i].appointment_datetime) < d

\* C20: for a positive duration d get_available_slots returns, strictly
\* increasing, exactly the candidates window_start + k*d with candidate + d <=
\* window_end that no scheduled or confirmed appointment of the doctor starting
\* inside the window blocks; appointments in any other status remove nothing;
\* a 09:00-17:00 window with d = 30 and no appointments gives the 16 slots
\* 09:00, 09:30, ..., 16:30.
C20_SlotsAreExactlyTheFreeCandidates ==
    ( /\ call.name = "get_available_slots"
      /\ HasWindow(call.doctor_id, call.datetime)
      /\ call.duration >= 1 )
    => LET window_start == WindowStart(call.doctor_id, call.datetime)
           window_end == WindowEnd(call.doctor_id, call.datetime)
           d == call.duration
           slots == ret.value
       IN  /\ \A i \in 1..(Len(slots) - 1) : slots[i] < slots[i + 1]
           /\ {slots[i] : i \in DOMAIN slots}
                 = {c \in Candidates(window_start, window_end, d) :
                        ~Blocked(call.doctor_id, window_start, window_end, c, d)}
           /\ ( /\ appointments = <<>>
                /\ d = 30
                /\ window_start = Combine(DateOf(call.datetime), 9 * 60)
                /\ window_end = Combine(DateOf(call.datetime), 17 * 60) )
              => slots = [i \in 1..16 |-> window_start + 30 * (i - 1)]

\* a Monday query for 30 minutes: a scheduled appointment at 09:40 has removed
\* 09:30 and 10:00, a no_show appointment at 09:00 has removed nothing
C20_Witness ==
    /\ call.name = "get_available_slots"
    /\ call.duration = 30
    /\ DateOf(call.datetime) = 0
    /\ \E i \in DOMAIN appointments :
          /\ appointments[i].status = SCHEDULED
          /\ appointments[i].doctor_id = call.doctor_id
          /\ appointments[i].appointment_datetime = Combine(0, 9 * 60 + 40)
    /\ \E i \in DOMAIN appointments :
          /\ appointments[i].status = NO_SHOW
          /\ appointments[i].doctor_id = call.doctor_id
          /\ appointments[i].appointment_datetime = Combine(0, 9 * 60)
    /\ Len(ret.value) = 14
    /\ ret.value[1] = Combine(0, 9 * 60)
    /\ ret.value[2] = Combine(0, 10 * 60 + 30)

\* C19: complete_appointment on a stored appointment returns true, leaves the
\* appointment completed and sets its patient's last_appointment to the
\* appointment's start time; the patient's no_show_count and status, and every
\* other patient, stay as they were.
C19_CompleteSetsLastAppointment ==
    [][\A a \in AppointmentIds :
          ( /\ complete_appointment(a)
            /\ get_appointment(a) # None )
          => /\ ret' = Return(TRUE)
             /\ Appt(a)'.status = COMPLETED
             /\ Appt(a)' = [Appt(a) EXCEPT !.status = COMPLETED]
             /\ get_patient(Appt(a).patient_id) # None
                => LET before == Pat(Appt(a).patient_id)
                       after == Pat(Appt(a).patient_id)'
                   IN  /\ after.last_appointment = Some(Appt(a).appointment_datetime)
                       /\ after.no_show_count = before.no_show_count
                       /\ after.status = before.status
             /\ \A i \in DOMAIN patients :
                   patients[i].id # Appt(a).patient_id => patients'[i] = patients[i]
      ]_vars

\* an appointment of a high_risk patient has just been completed: the patient
\* keeps the three no-shows and has the appointment's start as last_appointment
C19_Witness ==
    /\ call.name = "complete_appointment"
    /\ ret = Return(TRUE)
    /\ \E i \in DOMAIN appointments :
          /\ appointments[i].status = COMPLETED
          /\ Pat(appointments[i].patient_id).status = HIGH_RISK
          /\ Pat(appointments[i].patient_id).no_show_count = 3
          /\ Pat(appointments[i].patient_id).last_appointment
                = Some(appointments[i].appointment_datetime)

\* C18: in every sequence of lifecycle operations, notification sends and
\* insurance verifications, a stored appointment whose insurance_verified,
\* reminder_sent or confirmation_sent is true has it true after the next
\* operation; reschedule_appointment leaves reminder_sent and
\* confirmation_sent of the appointment as they were.
C18_FlagsAreMonotonic ==
    [][/\ \A i \in DOMAIN appointments :
            /\ i \in DOMAIN appointments'
            /\ appointments'[i].id = appointments[i].id
            /\ appointments[i].insurance_verified => appointments'[i].insurance_verified
            /\ appointments[i].reminder_sent => appointments'[i].reminder_sent
            /\ appointments[i].confirmation_sent => appointments'[i].confirmation_sent
       /\ call'.name = "reschedule_appointment"
          => \A a \in FlagAppointmentIds, t \in FlagDateTimes :
                ( /\ get_appointment(a) # None
                  /\ reschedule_appointment(a, t) )
                => /\ Appt(a)'.reminder_sent = Appt(a).reminder_sent
                   /\ Appt(a)'.confirmation_sent = Appt(a).confirmation_sent
      ]_vars

\* an appointment with all three flags set has just been moved and still has them
C18_Witness ==
    /\ call.name = "reschedule_appointment"
    /\ ret = Return(TRUE)
    /\ \E i \in DOMAIN appointments :
          /\ appointments[i].status = RESCHEDULED
          /\ appointments[i].insurance_verified
          /\ appointments[i].reminder_sent
          /\ appointments[i].confirmation_sent

\* the labels of the four sub-scores, in the order predict_no_show_risk adds them
RiskLabels ==
    <<"High historical no-show rate", "Unfavorable appointment timing",
      "Demographic risk factors", "Insurance/financial concerns">>

\* which of the four sub-scores of a stored patient and a stored appointment
\* are above 0.3 at the wall-clock time now
AboveThreshold(patient, appointment, now) ==
    <<10 * _calculate_historical_risk(patient, now) > 3 * ScoreScale,
      FLess(Lit_0_3, _calculate_timing_risk(appointment)),
      FLess(Lit_0_3, _calculate_demographic_risk(patient, now)),
      FLess(Lit_0_3, _calculate_financial_risk(patient, appointment))>>

\* list holds exactly the labels whose sub-score is above, in the fixed order
LabelsOfExactly(list, above) ==
    LET kept == {i \in 1..4 : above[i]}
    IN  /\ Len(list) = Cardinality(kept)
        /\ \A i \in kept : list[Cardinality({j \in kept : j <= i})] = RiskLabels[i]

\* C14: a prediction predict_no_show_risk returns has a risk_score in [0,1],
\* and its risk_factors are exactly the labels of the sub-scores (historical,
\* timing, demographic, financial) that are strictly above 0.3, in that order.
C14_ScoreInRangeAndLabelsOfHighSubScores ==
    [][(call'.name = "predict_no_show_risk" /\ ~ret'.raised)
       => /\ ret'.value.risk_score >= 0
          /\ ret'.value.risk_score <= 100 * ScoreScale
          /\ LabelsOfExactly(ret'.value.risk_factors,
                             AboveThreshold(Pat(call'.patient_id),
                                            Appt(call'.appointment_id), call'.now))
      ]_vars

\* a prediction with the second and the fourth label only
C14_Witness ==
    /\ call.name = "predict_no_show_risk"
    /\ ~ret.raised
    /\ ret.value.risk_factors =
           <<"Unfavorable appointment timing", "Insurance/financial concerns">>

\* no two stored predictions are of the same appointment
AtMostOnePerAppointment(store) ==
    \A i, j \in DOMAIN store : store[i].appointment_id = store[j].appointment_id => i = j

\* C15: the stored predictions hold at most one prediction per appointment;
\* after predict_no_show_risk returns a prediction it is the stored one of its
\* appointment and the stored predictions of the other appointments are as
\* before; get_high_risk_appointments leaves every stored prediction as it is
\* and stores, for a scheduled or confirmed appointment that had none, the
\* prediction of its own call.
C15_OnePredictionPerAppointmentTheLatest ==
    [][/\ AtMostOnePerAppointment(predictions')
       /\ (call'.name = "predict_no_show_risk" /\ ~ret'.raised)
          => /\ StoredFor(predictions', call'.appointment_id) = Some(ret'.value)
             /\ \A i \in DOMAIN appointments :
                   appointments[i].id # call'.appointment_id
                   => StoredFor(predictions', appointments[i].id)
                      = StoredFor(predictions, appointments[i].id)
       /\ (call'.name = "predict_no_show_risk" /\ ret'.raised)
          => predictions' = predictions
       /\ call'.name = "get_high_risk_appointments"
          => \A i \in DOMAIN appointments :
                LET a == appointments[i]
                IN  IF StoredFor(predictions, a.id) # None
                    THEN StoredFor(predictions', a.id) = StoredFor(predictions, a.id)
                    ELSE \/ /\ ret'.raised
                            /\ StoredFor(predictions', a.id) = None
                         \/ /\ a.status \in {SCHEDULED, CONFIRMED}
                            /\ get_patient(a.patient_id) # None
                            /\ StoredFor(predictions', a.id)
                               = Some(Prediction(a.patient_id, a.id, call'.now))
                         \/ /\ a.status \notin {SCHEDULED, CONFIRMED}
                            /\ StoredFor(predictions', a.id) = None
      ]_vars

\* the first appointment was scored before another one at the first clock
\* value and has been scored again at the later one
C15_Witness ==
    /\ call.name = "predict_no_show_risk"
    /\ ~ret.raised
    /\ call.now = Now1
    /\ Len(predictions) = 2
    /\ predictions[1].appointment_id = 3
    /\ predictions[1].prediction_date = Now0
    /\ predictions[2] = ret.value
    /\ predictions[2].appointment_id = 1

\* C16: two successive predict_no_show_risk calls with the same patient_id
\* and appointment_id, with the patients and the appointments unchanged
\* between them, return the same risk_score and the same risk_factors.
C16_SameInputsSamePrediction ==
    [][( /\ call.name = "predict_no_show_risk"
         /\ call'.name = "predict_no_show_risk"
         /\ call'.patient_id = call.patient_id
         /\ call'.appointment_id = call.appointment_id
         /\ ~ret.raised
         /\ ~ret'.raised
         /\ patients' = patients
         /\ appointments' = appointments )
       => /\ ret'.value.risk_score = ret.value.risk_score
          /\ ret'.value.risk_factors = ret.value.risk_factors
      ]_vars

\* the patient and the appointment of the scenario: fewer than two stored
\* appointments of the patient, a Tuesday at 10:00 created five days ahead
\* and verified, an active patient of 40 reached by phone, an emergency
\* contact, a provider outside the unreliable ones and a long number
Scenario(patient, appointment, now) ==
    /\ Len(get_appointments_of_patient(patient.id)) < 2
    /\ DateOf(appointment.appointment_datetime) % 7 = 1
    /\ appointment.appointment_datetime % MinutesPerDay = 10 * 60
    /\ appointment.appointment_datetime - appointment.created_at = 5 * MinutesPerDay
    /\ appointment.insurance_verified
    /\ (now - patient.date_of_birth) \div MinutesPerDay \in (40 * 365)..(41 * 365)
    /\ patient.status = ACTIVE
    /\ patient.preferred_communication = "phone"
    /\ patient.emergency_contact = ContactText
    /\ patient.insurance_provider = "Aetna"
    /\ Len(patient.insurance_number) = 9

\* C17: the risk_score of a returned prediction is 0.40 * historical
\* + 0.25 * timing + 0.20 * demographic + 0.15 * financial, clamped to [0,1];
\* for the patient and the appointment of the scenario it is 0.12, the
\* risk_factors are empty and the risk level is Low.
C17_WeightedSumAndScenario ==
    [][(call'.name = "predict_no_show_risk" /\ ~ret'.raised)
       => LET patient == Pat(call'.patient_id)
              appointment == Appt(call'.appointment_id)
              now == call'.now
              sum == 40 * _calculate_historical_risk(patient, now)
                     + 25 * Decimal(_calculate_timing_risk(appointment))
                     + 20 * Decimal(_calculate_demographic_risk(patient, now))
                     + 15 * Decimal(_calculate_financial_risk(patient, appointment))
          IN  /\ ret'.value.risk_score
                 = IF sum > 100 * ScoreScale THEN 100 * ScoreScale
                   ELSE IF sum < 0 THEN 0 ELSE sum
              /\ Scenario(patient, appointment, now)
                 => /\ ret'.value.risk_score = 12 * ScoreScale
                    /\ ret'.value.risk_factors = <<>>
                    /\ risk_level(ret'.value.risk_score) = "Low"
      ]_vars

\* the prediction of the scenario
C17_Witness ==
    /\ call.name = "predict_no_show_risk"
    /\ ~ret.raised
    /\ Scenario(Pat(call.patient_id), Appt(call.appointment_id), call.now)
    /\ ret.value.risk_score = 12 * ScoreScale
    /\ ret.value.risk_factors = <<>>

\* C21: cancel_appointment on a stored appointment returns true, sets the
\* status to cancelled and appends the cancellation text to the notes whatever
\* the status was, also when it was cancelled already; mark_no_show on a
\* stored appointment returns true and adds one to the patient's no_show_count
\* whatever the status was, also when it was no_show already.
C21_CancelAndNoShowRepeat ==
    [][/\ call'.name = "cancel_appointment"
          => \A a \in NotedAppointmentIds :
                (get_appointment(a) # None /\ cancel_appointment(a))
                => /\ ret' = Return(TRUE)
                   /\ Appt(a)'.status = CANCELLED
                   /\ Appt(a)'.notes = Appt(a).notes \o "\nCancelled"
       /\ call'.name = "mark_no_show"
          => \A a \in NotedAppointmentIds :
                (get_appointment(a) # None /\ mark_no_show(a))
                => /\ ret' = Return(TRUE)
                   /\ Appt(a)'.status = NO_SHOW
                   /\ Pat(Appt(a).patient_id)'.no_show_count
                      = Pat(Appt(a).patient_id).no_show_count + 1
      ]_vars

\* the only stored appointment has been cancelled twice and marked twice
C21_Witness ==
    /\ Len(appointments) = 1
    /\ appointments[1].notes = "\nCancelled\nCancelled"
    /\ appointments[1].status = NO_SHOW
    /\ Pat(2).no_show_count = 2

\* the same appointment booked five days ahead: no advance-booking term and
\* no last-minute term
BookedFiveDaysAhead(appointment) ==
    [appointment EXCEPT !.created_at = appointment.appointment_datetime - 5 * MinutesPerDay]

\* C22: the timing sub-score of a scored appointment created more than 60
\* days before its start is 0.30 above that of the same appointment booked
\* five days ahead (+0.10 and +0.20), and 0.10 above it when created 31 to 60
\* days before.
C22_BothAdvancePenaltiesApply ==
    (call.name = "predict_no_show_risk" /\ ~ret.raised)
    => LET appointment == Appt(call.appointment_id)
           days_advance == (appointment.appointment_datetime - appointment.created_at)
                           \div MinutesPerDay
           timing_risk == Decimal(_calculate_timing_risk(appointment))
           without == Decimal(_calculate_timing_risk(BookedFiveDaysAhead(appointment)))
       IN  /\ days_advance > 60 => timing_risk = without + (3 * ScoreScale) \div 10
           /\ days_advance \in 31..60 => timing_risk = without + ScoreScale \div 10

\* the stored appointments of a patient that started before now
PastAppointments(patient_id, now) ==
    SelectSeq(get_appointments_of_patient(patient_id),
              LAMBDA a : a.appointment_datetime < now)

\* C23: the historical sub-score of a scored patient who has fewer than two
\* stored appointments that started before the call is the cold-start value
\* 0.30, however many later appointments the patient has stored.
C23_ColdStartBelowTwoPastAppointments ==
    (call.name = "predict_no_show_risk" /\ ~ret.raised)
    => ( Len(PastAppointments(call.patient_id, call.now)) < 2
         => 10 * _calculate_historical_risk(Pat(call.patient_id), call.now)
            = 3 * ScoreScale )

\* the stored appointments with the status of one of them set to scheduled
AsScheduled(appointment_id) ==
    [i \in DOMAIN appointments |->
        IF i = IndexOf(appointments, appointment_id)
        THEN [appointments[i] EXCEPT !.status = SCHEDULED]
        ELSE appointments[i]]

\* get_available_slots of a known doctor, computed on a given list of appointments
AvailableSlotsOn(list, doctor_id, date, appointment_duration) ==
    LET doctor == get_doctor(doctor_id)[1]
        day_name == DayName(date)
    IN  IF day_name \notin DOMAIN doctor.working_hours THEN <<>>
        ELSE LET working_hours == doctor.working_hours[day_name]
                 start_of_day == Combine(DateOf(date), ParseTime(working_hours.start))
                 end_of_day == Combine(DateOf(date), ParseTime(working_hours.end))
                 existing ==
                     SelectSeq(list,
                               LAMBDA a : /\ a.doctor_id = doctor_id
                                          /\ ~(a.appointment_datetime < start_of_day)
                                          /\ ~(a.appointment_datetime > end_of_day))
             IN  SlotWalk(start_of_day, end_of_day, appointment_duration,
                          OccupiedSlots(existing), <<>>)

\* C25: a lifecycle operation on a stored appointment whose status is
\* rescheduled returns what it returns, and stores what it stores, when the
\* same appointment has the status scheduled: reschedule_appointment to any
\* datetime succeeds exactly when it would with the status scheduled and then
\* stores the same records; cancel_appointment, mark_no_show and
\* complete_appointment store the same records.
C25_RescheduledActsLikeScheduled ==
    [][\A a \in AppointmentIds :
          (get_appointment(a) # None /\ Appt(a).status = RESCHEDULED)
          => LET twin == AsScheduled(a)
                 twin_appointment == twin[IndexOf(appointments, a)]
             IN  /\ call'.name = "reschedule_appointment"
                    => \A t \in DateTimes :
                          reschedule_appointment(a, t)
                          => LET free == InList(t, AvailableSlotsOn(twin,
                                                      twin_appointment.doctor_id, t,
                                                      twin_appointment.duration))
                             IN  /\ ret' = Return(free)
                                 /\ free => appointments'
                                            = update_record(twin,
                                                  Rescheduled(twin_appointment, t))
                 /\ (call'.name = "cancel_appointment" /\ cancel_appointment(a))
                    => appointments' = update_record(twin, Cancelled(twin_appointment))
                 /\ (call'.name = "mark_no_show" /\ mark_no_show(a))
                    => appointments'
                       = update_record(twin, [twin_appointment EXCEPT !.status = NO_SHOW])
                 /\ (call'.name = "complete_appointment" /\ complete_appointment(a))
                    => appointments' = update_record(twin, Completed(twin_appointment))
      ]_vars

\* the statuses of an appointment that is still to take place
NonTerminalStatuses == {SCHEDULED, CONFIRMED, RESCHEDULED}

\* C26: no two stored appointments of the same doctor that are both
\* scheduled, confirmed or rescheduled have the same appointment_datetime.
C26_NoTwoOpenAppointmentsAtOneStart ==
    \A i, j \in DOMAIN appointments :
        ( /\ i # j
          /\ appointments[i].doctor_id = appointments[j].doctor_id
          /\ appointments[i].status \in NonTerminalStatuses
          /\ appointments[j].status \in NonTerminalStatuses )
        => appointments[i].appointment_datetime # appointments[j].appointment_datetime

\* C27: the no_show_count of every stored patient is the number of that
\* patient's stored appointments whose status is no_show.
C27_NoShowCountCountsNoShowAppointments ==
    \A i \in DOMAIN patients :
        patients[i].no_show_count = NoShowsIn(get_appointments_of_patient(patients[i].id))

\* the notification kinds of the two send operations
NotificationKinds == {"reminder", "confirmation"}

\* C30: in every sequence of notification sends, lifecycle operations and
\* insurance verifications, a channel has sent at most one reminder and at
\* most one confirmation for each appointment; send_appointment_reminder
\* (send_appointment_confirmation) on a stored appointment whose reminder_sent
\* (confirmation_sent) is true returns True, sends nothing and stores
\* nothing, whatever the appointment's status and datetime have become.
C30_AtMostOneReminderAndConfirmation ==
    [][/\ \A kind \in NotificationKinds, a \in FlagAppointmentIds :
            CopiesIn(<<kind, a>>, outbox') <= 1
       /\ call'.name = "send_appointment_reminder"
          => \A a \in FlagAppointmentIds, success \in BOOLEAN :
                ( /\ get_appointment(a) # None
                  /\ Appt(a).reminder_sent
                  /\ send_appointment_reminder(a, success) )
                => ret' = Return(TRUE) /\ outbox' = outbox /\ db' = db
       /\ call'.name = "send_appointment_confirmation"
          => \A a \in FlagAppointmentIds, success \in BOOLEAN :
                ( /\ get_appointment(a) # None
                  /\ Appt(a).confirmation_sent
                  /\ send_appointment_confirmation(a, success) )
                => ret' = Return(TRUE) /\ outbox' = outbox /\ db' = db
      ]_vars

\* an appointment booked for 09:00, reminded, confirmed and moved to 09:45 has
\* been sent to again: one reminder and one confirmation have gone out
C30_Witness ==
    /\ call.name \in {"send_appointment_reminder", "send_appointment_confirmation"}
    /\ ret = Return(TRUE)
    /\ steps = 5
    /\ Len(appointments) = 1
    /\ appointments[1].status = RESCHEDULED
    /\ appointments[1].appointment_datetime = Combine(0, 9 * 60 + 45)
    /\ appointments[1].reminder_sent
    /\ appointments[1].confirmation_sent
    /\ outbox = Sent("reminder", 1) (+) Sent("confirmation", 1)

----------------------------------------------------------------------------
(* Two callers of book_appointment at once. Each gateway operation (one load
   of a file, or one load and save) is one step; between two of them the other
   caller may run. `threads[th]` holds the caller's position and its local
   variables. *)

ThreadIds == {1, 2}

\* a caller that has not called yet
Idle == [pc |-> "idle"]

\* the caller's frame with `pc` and the local variables in `locals` replaced
At(th, pc, locals) ==
    [threads EXCEPT ![th] = [f \in DOMAIN @ \cup DOMAIN locals \cup {"pc"} |->
                                IF f = "pc" THEN pc
                                ELSE IF f \in DOMAIN locals THEN locals[f] ELSE @[f]]]

NoLocals == [f \in {} |-> 0]

\* the caller returns or raises: its frame keeps the result
Returned(th, result) == At(th, "done", [result |-> result])

\* faulty variant: the insert looks for a stored appointment of the same
\* doctor at the same start before it appends
add_record_if_slot_free(list, rec) ==
    IF \/ HasId(list, rec.id)
       \/ \E i \in DOMAIN list : /\ list[i].doctor_id = rec.doctor_id
                                  /\ list[i].appointment_datetime = rec.appointment_datetime
    THEN list ELSE Append(list, rec)

\* db.add_appointment: one load, the id test, one save
add_appointment(list, rec) == add_record(list, rec)

\* the call is made
BookCall(th, patient_id, doctor_id, appointment_datetime) ==
    /\ threads[th].pc = "idle"
    /\ steps < MaxSteps
    /\ steps' = steps + 1
    /\ threads' = At(th, "get_patient",
                     [patient_id |-> patient_id, doctor_id |-> doctor_id,
                      appointment_datetime |-> appointment_datetime])
    /\ call' = [name |-> "book_appointment"]
    /\ UNCHANGED <<db, ret, outbox>>

\* patient = self.db.get_patient(patient_id)
BookGetPatient(th) ==
    /\ threads[th].pc = "get_patient"
    /\ \E result \in {IF get_patient(threads[th].patient_id) = None
                       THEN Raise("Patient not found") ELSE Return(0)} :
          /\ threads' = IF result.raised THEN Returned(th, result)
                        ELSE At(th, "get_doctor", NoLocals)
          /\ ret' = IF result.raised THEN result ELSE ret
    /\ UNCHANGED <<db, call, steps, outbox>>

\* doctor = self.db.get_doctor(doctor_id)
BookGetDoctor(th) ==
    /\ threads[th].pc = "get_doctor"
    /\ IF get_doctor(threads[th].doctor_id) = None
       THEN /\ threads' = Returned(th, Raise("Doctor not found"))
            /\ ret' = Raise("Doctor not found")
       ELSE /\ threads' = At(th, "get_available_slots",
                             [duration |-> get_doctor(threads[th].doctor_id)[1]
                                             .appointment_duration])
            /\ UNCHANGED ret
    /\ UNCHANGED <<db, call, steps, outbox>>

\* available_slots = self.get_available_slots(...): the appointments are
\* loaded once; the doctor loaded again is the one loaded before
BookCheckSlot(th) ==
    /\ threads[th].pc = "get_available_slots"
    /\ IF ~SlotAvailable(threads[th].doctor_id, threads[th].appointment_datetime,
                         threads[th].duration)
       THEN /\ threads' = Returned(th, Raise("Appointment slot not available"))
            /\ ret' = Raise("Appointment slot not available")
       ELSE /\ threads' = At(th, "add_appointment", NoLocals)
            /\ UNCHANGED ret
    /\ UNCHANGED <<db, call, steps, outbox>>

\* the appointment the caller has built; uuid4 gives each caller its own id
BookedBy(th) ==
    NewAppointment(th, threads[th].patient_id, threads[th].doctor_id,
                   threads[th].appointment_datetime, threads[th].duration)

\* self.db.add_appointment(appointment), and the return
BookAddAppointment(th) ==
    /\ threads[th].pc = "add_appointment"
    /\ appointments' = add_appointment(appointments, BookedBy(th))
    /\ \E result \in {IF HasId(appointments, th) THEN Raise("Failed to book appointment")
                       ELSE Return(th)} :
          /\ threads' = Returned(th, result)
          /\ ret' = result
    /\ UNCHANGED <<patients, doctors, predictions, settings, call, steps, outbox>>

InitBooking ==
    /\ patients = RegisteredPatients
    /\ doctors = <<Doctor1>>
    /\ appointments = <<>>
    /\ predictions = <<>>
    /\ settings = <<ClinicSettings(DefaultNoShowThreshold)>>
    /\ call = [name |-> "init"]
    /\ ret = Return(0)
    /\ steps = 0
    /\ outbox = EmptyBag
    /\ threads = [th \in ThreadIds |-> Idle]

NextBooking ==
    \/ \E th \in ThreadIds, p \in PatientIds, d \in DoctorIds, t \in DateTimes :
          BookCall(th, p, d, t)
    \/ \E th \in ThreadIds : BookGetPatient(th)
    \/ \E th \in ThreadIds : BookGetDoctor(th)
    \/ \E th \in ThreadIds : BookCheckSlot(th)
    \/ \E th \in ThreadIds : BookAddAppointment(th)

SpecBooking == InitBooking /\ [][NextBooking]_vars

\* C24: a caller of book_appointment that has passed the availability check
\* stores its appointment at its add_appointment whatever has been stored
\* since the check, and returns the id: nothing between the check and the
\* insert, and nothing in the insert, looks at the slot again. Two callers for
\* the same doctor and start can therefore both store a scheduled appointment.
C24_InsertAfterCheckIsUnconditional ==
    [][\A th \in ThreadIds :
          BookAddAppointment(th)
          => /\ appointments' = Append(appointments, BookedBy(th))
             /\ threads'[th].result = Return(th)
             /\ BookedBy(th).status = SCHEDULED
      ]_vars

\* both callers have returned an id and two scheduled appointments of doc_001
\* start on Monday at 09:00
C24_Witness ==
    /\ \A th \in ThreadIds : threads[th].pc = "done" /\ threads[th].result = Return(th)
    /\ Len(appointments) = 2
    /\ \A i \in 1..2 : /\ appointments[i].doctor_id = "doc_001"
                        /\ appointments[i].status = SCHEDULED
                        /\ appointments[i].appointment_datetime = Combine(0, 9 * 60)

----------------------------------------------------------------------------
(* Two callers of mark_no_show at once, each gateway operation one step *)

\* the call is made
MarkCall(th, appointment_id) ==
    /\ threads[th].pc = "idle"
    /\ steps < MaxSteps
    /\ steps' = steps + 1
    /\ threads' = At(th, "get_appointment", [appointment_id |-> appointment_id])
    /\ call' = [name |-> "mark_no_show"]
    /\ UNCHANGED <<db, ret, outbox>>

\* appointment = self.db.get_appointment(appointment_id), and the status set
\* on the caller's copy
MarkGetAppointment(th) ==
    /\ threads[th].pc = "get_appointment"
    /\ IF get_appointment(threads[th].appointment_id) = None
       THEN /\ threads' = Returned(th, Return(FALSE))
            /\ ret' = Return(FALSE)
       ELSE /\ threads' = At(th, "get_patient",
                             [appointment |-> [Appt(threads[th].appointment_id)
                                                  EXCEPT !.status = NO_SHOW]])
            /\ UNCHANGED ret
    /\ UNCHANGED <<db, call, steps, outbox>>

\* patient = self.db.get_patient(appointment.patient_id), and the count raised
\* on the caller's copy
MarkGetPatient(th) ==
    /\ threads[th].pc = "get_patient"
    /\ \E patient \in {get_patient(threads[th].appointment.patient_id)} :
          threads' = IF patient = None
                     THEN At(th, "update_appointment", NoLocals)
                     ELSE At(th, "update_patient", [patient |-> NoShowPatient(patient[1])])
    /\ UNCHANGED <<db, call, ret, steps, outbox>>

\* self.db.update_patient(patient): the file is loaded, the caller's copy of
\* the record replaces the stored one, the file is saved
MarkUpdatePatient(th) ==
    /\ threads[th].pc = "update_patient"
    /\ patients' = update_record(patients, threads[th].patient)
    /\ threads' = At(th, "update_appointment", NoLocals)
    /\ UNCHANGED <<doctors, appointments, predictions, settings, call, ret, steps, outbox>>

\* return self.db.update_appointment(appointment)
MarkUpdateAppointment(th) ==
    /\ threads[th].pc = "update_appointment"
    /\ appointments' = update_record(appointments, threads[th].appointment)
    /\ \E result \in {Return(HasId(appointments, threads[th].appointment.id))} :
          /\ threads' = Returned(th, result)
          /\ ret' = result
    /\ UNCHANGED <<patients, doctors, predictions, settings, call, steps, outbox>>

\* patient 2 has two booked appointments, Monday 09:00 and 09:45
InitNoShow ==
    /\ patients = RegisteredPatients
    /\ doctors = <<Doctor1>>
    /\ appointments = <<NewAppointment(1, 2, "doc_001", Combine(0, 9 * 60), 45),
                        NewAppointment(2, 2, "doc_001", Combine(0, 9 * 60 + 45), 45)>>
    /\ predictions = <<>>
    /\ settings = <<ClinicSettings(DefaultNoShowThreshold)>>
    /\ call = [name |-> "init"]
    /\ ret = Return(0)
    /\ steps = 0
    /\ outbox = EmptyBag
    /\ threads = [th \in ThreadIds |-> Idle]

\* the appointment ids callers pass: the two stored ones and an unknown one
MarkedAppointmentIds == {1, 2, 3}

NextNoShow ==
    \/ \E th \in ThreadIds, a \in MarkedAppointmentIds : MarkCall(th, a)
    \/ \E th \in ThreadIds : MarkGetAppointment(th)
    \/ \E th \in ThreadIds : MarkGetPatient(th)
    \/ \E th \in ThreadIds : MarkUpdatePatient(th)
    \/ \E th \in ThreadIds : MarkUpdateAppointment(th)

SpecNoShow == InitNoShow /\ [][NextNoShow]_vars

\* C28: when two concurrent mark_no_show calls for the two appointments of
\* patient 2 have both returned, both appointments have the status no_show
\* and the patient's no_show_count has grown by 2, from 0 to 2.
C28_NoLostNoShowCount ==
    ( /\ \A th \in ThreadIds : threads[th].pc = "done" /\ threads[th].result = Return(TRUE)
      /\ threads[1].appointment.id # threads[2].appointment.id )
    => /\ Appt(1).status = NO_SHOW
       /\ Appt(2).status = NO_SHOW
       /\ Pat(2).no_show_count = 2

----------------------------------------------------------------------------
(* get_available_slots step by step: the two loads, then the while loop, its
   condition and its body one at a time *)

\* the slots of one call the model keeps
MaxSlots == 4

\* the durations callers pass: negative, zero, and two that fit the day
LoopDurations == {0 - 45, 0, 30, 45}

\* Monday and Tuesday at midnight
SlotDates == {Combine(0, 0), Combine(1, 0)}

\* the call is made
SlotsCall(th, doctor_id, date, appointment_duration) ==
    /\ threads[th].pc = "idle"
    /\ steps < MaxSteps
    /\ steps' = steps + 1
    /\ threads' = At(th, "get_doctor",
                     [doctor_id |-> doctor_id, date |-> date,
                      appointment_duration |-> appointment_duration])
    /\ call' = [name |-> "get_available_slots"]
    /\ UNCHANGED <<db, ret, outbox>>

\* doctor = self.db.get_doctor(doctor_id), the day's working hours, and the
\* two ends of the day
SlotsGetDoctor(th) ==
    /\ threads[th].pc = "get_doctor"
    /\ \E doctor \in {get_doctor(threads[th].doctor_id)} :
          IF doctor = None \/ DayName(threads[th].date) \notin DOMAIN doctor[1].working_hours
          THEN threads' = Returned(th, Return(<<>>)) /\ ret' = Return(<<>>)
          ELSE \E working_hours \in {doctor[1].working_hours[DayName(threads[th].date)]} :
                  /\ threads' =
                         At(th, "get_appointments",
                            [start_of_day |-> Combine(DateOf(threads[th].date),
                                                      ParseTime(working_hours.start)),
                             end_of_day |-> Combine(DateOf(threads[th].date),
                                                    ParseTime(working_hours.end))])
                  /\ UNCHANGED ret
    /\ UNCHANGED <<db, call, steps, outbox>>

\* existing_appointments = self.db.get_appointments(...), the occupied slots,
\* and the loop's variables at its start
SlotsGetAppointments(th) ==
    /\ threads[th].pc = "get_appointments"
    /\ threads' = At(th, "while",
                     [occupied_slots |->
                          OccupiedSlots(get_appointments(threads[th].doctor_id,
                                                         threads[th].start_of_day,
                                                         threads[th].end_of_day)),
                      available_slots |-> <<>>,
                      current_time |-> threads[th].start_of_day])
    /\ UNCHANGED <<db, call, ret, steps, outbox>>

\* datetime.min, brought to the day before the dates callers pass
MinDateTime == Combine(0 - 1, 0)

\* list.append, of which the model keeps the first MaxSlots entries
AppendSlot(available_slots, current_time) ==
    IF Len(available_slots) < MaxSlots THEN Append(available_slots, current_time)
    ELSE available_slots

\* the loop condition cannot be computed: the sum is before datetime.min
SlotsOverflow(th) ==
    /\ threads[th].pc = "while"
    /\ threads[th].current_time + threads[th].appointment_duration < MinDateTime
    /\ threads' = Returned(th, Raise("OverflowError"))
    /\ ret' = Raise("OverflowError")
    /\ UNCHANGED <<db, call, steps, outbox>>

\* the loop condition is true: the body is entered
SlotsEnter(th) ==
    /\ threads[th].pc = "while"
    /\ ~(threads[th].current_time + threads[th].appointment_duration < MinDateTime)
    /\ SlotFits(threads[th].current_time, threads[th].end_of_day,
                threads[th].appointment_duration)
    /\ threads' = At(th, "body", NoLocals)
    /\ UNCHANGED <<db, call, ret, steps, outbox>>

\* the body of the while loop
SlotsIterate(th) ==
    /\ threads[th].pc = "body"
    /\ threads' =
           At(th, "while",
              [available_slots |->
                   IF SlotConflict(threads[th].current_time, threads[th].occupied_slots,
                                   threads[th].appointment_duration)
                   THEN threads[th].available_slots
                   ELSE AppendSlot(threads[th].available_slots, threads[th].current_time),
               current_time |-> threads[th].current_time + threads[th].appointment_duration])
    /\ UNCHANGED <<db, call, ret, steps, outbox>>

\* the loop condition is false: return available_slots
SlotsReturn(th) ==
    /\ threads[th].pc = "while"
    /\ ~(threads[th].current_time + threads[th].appointment_duration < MinDateTime)
    /\ ~SlotFits(threads[th].current_time, threads[th].end_of_day,
                 threads[th].appointment_duration)
    /\ threads' = Returned(th, Return(threads[th].available_slots))
    /\ ret' = Return(threads[th].available_slots)
    /\ UNCHANGED <<db, call, steps, outbox>>

\* one caller; doc_001 has no appointment, one at 09:00 or one at 09:45
InitSlotLoop ==
    /\ patients = RegisteredPatients
    /\ doctors = <<Doctor1>>
    /\ appointments \in {<<>>,
                         <<NewAppointment(1, 2, "doc_001", Combine(0, 9 * 60), 45)>>,
                         <<NewAppointment(1, 2, "doc_001", Combine(0, 9 * 60 + 45), 45)>>}
    /\ predictions = <<>>
    /\ settings = <<ClinicSettings(DefaultNoShowThreshold)>>
    /\ call = [name |-> "init"]
    /\ ret = Return(<<>>)
    /\ steps = 0
    /\ outbox = EmptyBag
    /\ threads = <<Idle>>

NextSlotLoop ==
    \/ \E d \in DoctorIds, date \in SlotDates, appointment_duration \in LoopDurations :
          SlotsCall(1, d, date, appointment_duration)
    \/ SlotsGetDoctor(1)
    \/ SlotsGetAppointments(1)
    \/ SlotsOverflow(1)
    \/ SlotsEnter(1)
    \/ SlotsIterate(1)
    \/ SlotsReturn(1)

SpecSlotLoop == InitSlotLoop /\ [][NextSlotLoop]_vars

\* the interpreter keeps running the call: a step that can be taken is taken
SpecSlotLoopFair == SpecSlotLoop /\ WF_vars(NextSlotLoop)

\* the loop computes what SlotWalk computes
SlotLoopIsSlotWalk ==
    (threads[1].pc = "done" /\ threads[1].appointment_duration > 0)
    => threads[1].result = Return(get_available_slots(threads[1].doctor_id, threads[1].date,
                                                       threads[1].appointment_duration))

\* C29: every call of get_available_slots comes to an end, for every doctor,
\* every date and every integer duration, zero and negative ones included.
C29_EveryCallReturns ==
    (threads[1].pc = "get_doctor") ~> (threads[1].pc = "done")

====
